---- MODULE Spec2Model ----
(***************************************************************************)
(* Model of the chat engine of canvasai: the per-lane session controller   *)
(* (src/hooks/useChatEngine.ts), the provider adapter's stream entry point *)
(* and history normalisation (src/services/geminiService.ts), the local   *)
(* lexical retrieval (retrieveRelevantContext), the bounded retry and the  *)
(* error translator of the service, and the manual relay and auto-battle   *)
(* of the application (src/App.tsx).                                       *)
(*                                                                         *)
(* Text is a tuple of one-character strings, so that length, slicing,      *)
(* lower-casing and substring search are computed as the code computes     *)
(* them.  A fixed user-facing message of the code (Chinese text in the     *)
(* source) is one token of its own, named MSG_...                          *)
(***************************************************************************)
EXTENDS Integers, Sequences, FiniteSets, TLC

VARIABLES
    abortControllerRef, \* lane -> the controller in the ref (0 = null); a controller is named by its generation
    isLoading,          \* lane -> the isLoading state of the hook
    aborted,            \* the controllers whose signal.aborted is true
    gens,               \* the sendMessage calls made so far, in order of creation
    messages,           \* lane -> the list the lane's sink (setMessages) was last given
    nextId,             \* the next fresh message id (crypto.randomUUID)
    currentModelId,     \* the model selected in the application (App.tsx currentModelId)
    provider,           \* GeminiService.provider
    rq, rfiles, rmax,   \* retrieval: query, knowledge files, maxChars of the call
    rout, rcalled,      \* retrieval: the string returned, and whether the call was made
    hin, hout, hcalled, \* history normalisation: input messages, converted contents, call made
    rt,                 \* one call of retry: its arguments, loop position, invocations and waits
    tr,                 \* one call of translateError: the failure and the text returned
    app,                \* application state around the two engines (App.tsx)
    svc                 \* one call of a service method outside a send: its arguments and what it returned

engineVars == <<abortControllerRef, isLoading, aborted, gens, messages, nextId>>
configVars == <<currentModelId, provider>>
retrieveVars == <<rq, rfiles, rmax, rout, rcalled>>
historyVars == <<hin, hout, hcalled>>
vars == <<abortControllerRef, isLoading, aborted, gens, messages, nextId,
          currentModelId, provider, rq, rfiles, rmax, rout, rcalled, hin, hout, hcalled,
          rt, tr, app, svc>>
\* what a step of the engines leaves alone
engineFrame == <<configVars, retrieveVars, historyVars, rt, tr, app, svc>>

-----------------------------------------------------------------------------
(* Bounds of the model *)

MaxGens == 2
MaxChunks == 1
\* the generations of the specification that looks at three overlapping sends
MaxOverlap == 3
\* the generations of the specification that looks at a relay between idle lanes
MaxRelayGens == 1
\* the cooldown timers of auto-battle pending at one time
MaxTimers == 2

-----------------------------------------------------------------------------
(* Text helpers: String.prototype.toLowerCase / includes / slice *)

UpperChars == <<"A", "B", "C", "D", "E", "F", "G", "H", "I", "J", "K", "L", "M",
                "N", "O", "P", "Q", "R", "S", "T", "U", "V", "W", "X", "Y", "Z">>
LowerChars == <<"a", "b", "c", "d", "e", "f", "g", "h", "i", "j", "k", "l", "m",
                "n", "o", "p", "q", "r", "s", "t", "u", "v", "w", "x", "y", "z">>

ToLowerChar(c) ==
    IF \E i \in DOMAIN UpperChars : UpperChars[i] = c
    THEN LowerChars[CHOOSE i \in DOMAIN UpperChars : UpperChars[i] = c]
    ELSE c

toLowerCase(s) == [i \in 1..Len(s) |-> ToLowerChar(s[i])]

\* s.includes(sub)
includes(s, sub) ==
    \E i \in 0..(Len(s) - Len(sub)) :
        \A j \in 1..Len(sub) : s[i + j] = sub[j]

\* s.slice(from, to) with 0-based from (inclusive) and to (exclusive), both >= 0
slice(s, from, to) ==
    LET hi == IF to > Len(s) THEN Len(s) ELSE to
    IN  IF from >= hi THEN <<>> ELSE [i \in 1..(hi - from) |-> s[from + i]]

-----------------------------------------------------------------------------
(* Error translator: GeminiService.translateError *)

\* the substrings translateError looks for in the lower-cased failure text
P_iso_8859_1 ==
    <<"i", "s", "o", "-", "8", "8", "5", "9", "-", "1">>
P_headers ==
    <<"h", "e", "a", "d", "e", "r", "s">>
P_failed_to_fetch ==
    <<"f", "a", "i", "l", "e", "d", " ", "t", "o", " ", "f", "e", "t", "c", "h">>
P_network_error ==
    <<"n", "e", "t", "w", "o", "r", "k", " ", "e", "r", "r", "o", "r">>
P_connection_refused ==
    <<"c", "o", "n", "n", "e", "c", "t", "i", "o", "n", " ", "r", "e", "f", "u", "s", "e", "d">>
P_load_failed ==
    <<"l", "o", "a", "d", " ", "f", "a", "i", "l", "e", "d">>
P_401 ==
    <<"4", "0", "1">>
P_unauthorized ==
    <<"u", "n", "a", "u", "t", "h", "o", "r", "i", "z", "e", "d">>
P_invalid_api_key ==
    <<"i", "n", "v", "a", "l", "i", "d", "_", "a", "p", "i", "_", "k", "e", "y">>
P_402 ==
    <<"4", "0", "2">>
P_payment_required ==
    <<"p", "a", "y", "m", "e", "n", "t", " ", "r", "e", "q", "u", "i", "r", "e", "d">>
P_requires_more_credits ==
    <<"r", "e", "q", "u", "i", "r", "e", "s", " ", "m", "o", "r", "e", " ", "c", "r", "e", "d", "i", "t", "s">>
P_403 ==
    <<"4", "0", "3">>
P_permission_denied ==
    <<"p", "e", "r", "m", "i", "s", "s", "i", "o", "n", " ", "d", "e", "n", "i", "e", "d">>
P_access_denied ==
    <<"a", "c", "c", "e", "s", "s", " ", "d", "e", "n", "i", "e", "d">>
P_generative_language_api ==
    <<"g", "e", "n", "e", "r", "a", "t", "i", "v", "e", " ", "l", "a", "n", "g", "u", "a", "g", "e", " ", "a", "p", "i">>
P_api_has_not_been_used ==
    <<"a", "p", "i", " ", "h", "a", "s", " ", "n", "o", "t", " ", "b", "e", "e", "n", " ", "u", "s", "e", "d">>
P_404 ==
    <<"4", "0", "4">>
P_not_found ==
    <<"n", "o", "t", " ", "f", "o", "u", "n", "d">>
P_429 ==
    <<"4", "2", "9">>
P_rate_limit ==
    <<"r", "a", "t", "e", " ", "l", "i", "m", "i", "t">>
P_quota ==
    <<"q", "u", "o", "t", "a">>
P_500 ==
    <<"5", "0", "0">>
P_502 ==
    <<"5", "0", "2">>
P_503 ==
    <<"5", "0", "3">>
P_internal_server_error ==
    <<"i", "n", "t", "e", "r", "n", "a", "l", " ", "s", "e", "r", "v", "e", "r", " ", "e", "r", "r", "o", "r">>
P_400 ==
    <<"4", "0", "0">>
P_invalid_argument ==
    <<"i", "n", "v", "a", "l", "i", "d", " ", "a", "r", "g", "u", "m", "e", "n", "t">>

MaxDetailLen == 200

\* the fixed messages returned by translateError, one token each
MsgIllegalChars == <<"MSG_ILLEGAL_CHARS_IN_KEY_OR_URL">>
MsgNetwork == <<"MSG_NETWORK_REQUEST_FAILED">>
MsgUnauthorized == <<"MSG_API_KEY_INVALID_401">>
MsgPayment == <<"MSG_INSUFFICIENT_BALANCE_402">>
MsgApiNotEnabled == <<"MSG_API_NOT_ENABLED_403">>
MsgForbidden == <<"MSG_FORBIDDEN_OR_REGION_403">>
MsgNotFound == <<"MSG_NOT_FOUND_404">>
MsgRateLimit == <<"MSG_RATE_LIMIT_429">>
MsgQuota == <<"MSG_QUOTA_EXHAUSTED_429">>
MsgTooFast == <<"MSG_TOO_FAST_OR_QUOTA_429">>
MsgServer == <<"MSG_SERVER_ERROR_5XX">>
MsgBadRequest == <<"MSG_BAD_REQUEST_400">>
MsgPrefixUnclassified == <<"MSG_REQUEST_FAILED: ">>
Ellipsis == <<".", ".", ".">>

\* a translator that tests the not-found rule before the unauthorized rule
translateError_NotFoundFirst(error) ==
    LET originalMessage == error.message
        msg == toLowerCase(originalMessage)
        has(p) == includes(msg, p)
    IN  IF has(P_iso_8859_1) \/ has(P_headers) THEN MsgIllegalChars
        ELSE IF has(P_failed_to_fetch) \/ has(P_network_error)
                \/ has(P_connection_refused) \/ has(P_load_failed) THEN MsgNetwork
        ELSE IF has(P_404) \/ has(P_not_found) THEN MsgNotFound
        ELSE IF has(P_401) \/ has(P_unauthorized) \/ has(P_invalid_api_key) THEN MsgUnauthorized
        ELSE IF has(P_402) \/ has(P_payment_required) \/ has(P_requires_more_credits) THEN MsgPayment
        ELSE IF has(P_403) \/ has(P_permission_denied) \/ has(P_access_denied)
             THEN IF has(P_generative_language_api) \/ has(P_api_has_not_been_used)
                  THEN MsgApiNotEnabled
                  ELSE MsgForbidden
        ELSE IF has(P_429) \/ has(P_rate_limit) \/ has(P_quota)
             THEN IF has(P_rate_limit) THEN MsgRateLimit
                  ELSE IF has(P_quota) THEN MsgQuota
                  ELSE MsgTooFast
        ELSE IF has(P_500) \/ has(P_502) \/ has(P_503) \/ has(P_internal_server_error) THEN MsgServer
        ELSE IF has(P_400) \/ has(P_invalid_argument) THEN MsgBadRequest
        ELSE MsgPrefixUnclassified \o originalMessage

\* translateError(error): error is a record [name, message]; the result is the
\* user-facing message.  First matching rule wins.
translateError(error) ==
    LET originalMessage == error.message
        msg == toLowerCase(originalMessage)
        has(p) == includes(msg, p)
    IN  IF has(P_iso_8859_1) \/ has(P_headers) THEN MsgIllegalChars
        ELSE IF has(P_failed_to_fetch) \/ has(P_network_error)
                \/ has(P_connection_refused) \/ has(P_load_failed) THEN MsgNetwork
        ELSE IF has(P_401) \/ has(P_unauthorized) \/ has(P_invalid_api_key) THEN MsgUnauthorized
        ELSE IF has(P_402) \/ has(P_payment_required) \/ has(P_requires_more_credits) THEN MsgPayment
        ELSE IF has(P_403) \/ has(P_permission_denied) \/ has(P_access_denied)
             THEN IF has(P_generative_language_api) \/ has(P_api_has_not_been_used)
                  THEN MsgApiNotEnabled
                  ELSE MsgForbidden
        ELSE IF has(P_404) \/ has(P_not_found) THEN MsgNotFound
        ELSE IF has(P_429) \/ has(P_rate_limit) \/ has(P_quota)
             THEN IF has(P_rate_limit) THEN MsgRateLimit
                  ELSE IF has(P_quota) THEN MsgQuota
                  ELSE MsgTooFast
        ELSE IF has(P_500) \/ has(P_502) \/ has(P_503) \/ has(P_internal_server_error) THEN MsgServer
        ELSE IF has(P_400) \/ has(P_invalid_argument) THEN MsgBadRequest
        ELSE LET detailedError ==
                     IF Len(originalMessage) > MaxDetailLen
                     THEN slice(originalMessage, 0, MaxDetailLen) \o Ellipsis
                     ELSE originalMessage
             IN  MsgPrefixUnclassified \o detailedError

-----------------------------------------------------------------------------
(* Messages (src/unnamed/part_000: Message) *)

Lanes == {"left", "right"}

NoMeta == "none"

Msg(id, role, content, attachments, isHidden, isError, meta) ==
    [id |-> id, role |-> role, content |-> content, attachments |-> attachments,
     isHidden |-> isHidden, isError |-> isError, groundingMetadata |-> meta]

\* the entries of list with the given id
WithId(list, id) == {i \in 1..Len(list) : list[i].id = id}

-----------------------------------------------------------------------------
(* Inputs of the engine *)

TextHi == <<"h", "i">>
TextYo == <<"y", "o">>
AttImage == [type |-> "image", mimeType |-> "image/png", base64 |-> "iVBORw0KGgo="]

ModelNone == <<>>
ModelGemini == <<"g", "e", "m", "i", "n", "i", "-", "p", "r", "o">>
ModelVeo == <<"v", "e", "o", "-", "2">>
ModelDallE == <<"d", "a", "l", "l", "-", "e", "-", "3">>

S_video == <<"v", "i", "d", "e", "o">>
S_veo == <<"v", "e", "o">>
S_dall_e == <<"d", "a", "l", "l", "-", "e">>
S_image_preview == <<"g", "e", "m", "i", "n", "i", "-", "3", "-", "p", "r", "o", "-", "i", "m", "a", "g", "e", "-", "p", "r", "e", "v", "i", "e", "w">>

\* what the stream delivers: a native payload (text delta, grounding metadata)
Payloads == {[text |-> <<"a">>, meta |-> "g1"]}
\* the content delta extracted from one read of the OpenAI-compatible stream
ContentChunks == {<<"b">>}
VideoContent == <<"MSG_GENERATED_VIDEO">>
ImageContent == <<"MSG_IMAGE_GENERATED">>

\* raw failures of the adapter's awaited operations
NoError == [name |-> "none", message |-> <<>>]
AbortError == [name |-> "AbortError", message |-> <<"A", "b", "o", "r", "t", "e", "d">>]
FetchAbortError == [name |-> "AbortError", message |-> <<"T", "h", "e", " ", "u", "s", "e", "r", " ", "a", "b", "o", "r", "t", "e", "d", " ", "a", " ", "r", "e", "q", "u", "e", "s", "t", ".">>]
RawFailures ==
    {[name |-> "Error", message |-> <<"H", "T", "T", "P", " ", "E", "r", "r", "o", "r", " ", "5", "0", "3", ":", " ", "b", "u", "s", "y">>]}

\* the histories a lane may hold when the engine is first used
HistEmpty == <<>>
HistUserModel ==
    <<Msg(101, "user", TextHi, <<>>, FALSE, FALSE, NoMeta),
      Msg(102, "model", TextYo, <<>>, FALSE, FALSE, NoMeta)>>
HistHiddenUserErroredModel ==
    <<Msg(101, "model", TextYo, <<>>, FALSE, FALSE, NoMeta),
      Msg(102, "user", TextYo, <<AttImage>>, TRUE, FALSE, NoMeta),
      Msg(103, "model", MsgServer, <<>>, FALSE, TRUE, NoMeta)>>
HistModel == <<Msg(101, "model", TextYo, <<>>, FALSE, FALSE, NoMeta)>>
HistUser == <<Msg(101, "user", TextHi, <<>>, FALSE, FALSE, NoMeta)>>
HistModelModel ==
    <<Msg(101, "model", TextYo, <<>>, FALSE, FALSE, NoMeta),
      Msg(102, "model", TextYo, <<>>, FALSE, FALSE, NoMeta)>>

\* the configurations the engine is started in: the lane's history, the selected
\* model and the service's provider
InitConfigs ==
    {[history |-> HistEmpty, modelId |-> ModelGemini, provider |-> "google"],
     [history |-> HistUserModel, modelId |-> ModelGemini, provider |-> "openai"],
     [history |-> HistHiddenUserErroredModel, modelId |-> ModelVeo, provider |-> "google"],
     [history |-> HistEmpty, modelId |-> ModelDallE, provider |-> "openai"],
     [history |-> HistModel, modelId |-> ModelVeo, provider |-> "openai"],
     [history |-> HistUser, modelId |-> ModelDallE, provider |-> "google"],
     [history |-> HistModelModel, modelId |-> ModelNone, provider |-> "google"],
     [history |-> HistUserModel, modelId |-> ModelNone, provider |-> "openai"]}

-----------------------------------------------------------------------------
(* Provider adapter entry point: GeminiService.sendMessageStream *)

IsVideoModel(modelId) == includes(modelId, S_video) \/ includes(modelId, S_veo)
IsImageModel(modelId) == includes(modelId, S_dall_e) \/ includes(modelId, S_image_preview)

\* the branch of sendMessageStream a call takes
AdapterPath(modelId, prov) ==
    IF IsVideoModel(modelId) THEN "video"
    ELSE IF IsImageModel(modelId) THEN "image"
    ELSE IF prov = "google" THEN "google"
    ELSE "openai"

\* the times one call of sendMessageStream issues its request (generateContentStream,
\* fetch, generateVideo, generateImage): each is awaited once, outside any retry loop
AdapterRequests == 1

\* catch (e) { throw new Error(this.translateError(e)); } : what sendMessageStream
\* rejects with when the awaited adapter operation rejects with e
sendMessageStreamFailure(e) == [name |-> "Error", message |-> translateError(e)]

-----------------------------------------------------------------------------
(* Session controller: useChatEngine *)

MsgGenerationFailed == <<"MSG_GENERATION_FAILED">>

Gens == DOMAIN gens

RECURSIVE SumReads(_)
SumReads(n) == IF n = 0 THEN 0 ELSE gens[n].reads + SumReads(n - 1)
\* the reads delivered so far, over all generations
TotalReads == SumReads(Len(gens))
Awaiting(g) == g \in Gens /\ gens[g].pc = "awaiting"
InFlight(l) == {g \in Gens : gens[g].lane = l /\ gens[g].pc = "awaiting"}

\* a stop that aborts the controller but leaves it in the ref
stopGeneration_KeepsRef(ref, loading, ab) ==
    IF ref # 0
    THEN [ref |-> ref, loading |-> FALSE, aborted |-> ab \cup {ref}]
    ELSE [ref |-> ref, loading |-> loading, aborted |-> ab]

\* stopGeneration: the lane's ref, loading flag and the aborted signals afterwards
stopGeneration(ref, loading, ab) ==
    IF ref # 0
    THEN [ref |-> 0, loading |-> FALSE, aborted |-> ab \cup {ref}]
    ELSE [ref |-> ref, loading |-> loading, aborted |-> ab]

\* a stop that reaches the controllers of every lane
Stop_EveryLane(l) ==
    /\ abortControllerRef' = [k \in Lanes |-> 0]
    /\ isLoading' = [k \in Lanes |-> FALSE]
    /\ aborted' = aborted \cup ({abortControllerRef[k] : k \in Lanes} \ {0})
    /\ UNCHANGED <<gens, messages, nextId>>

\* stopGeneration() of the lane's engine
Stop(l) ==
    LET r == stopGeneration(abortControllerRef[l], isLoading[l], aborted)
    IN  /\ abortControllerRef' = [abortControllerRef EXCEPT ![l] = r.ref]
        /\ isLoading' = [isLoading EXCEPT ![l] = r.loading]
        /\ aborted' = r.aborted
        /\ UNCHANGED <<gens, messages, nextId>>

\* sendMessage, lines 148-153: the controllers aborted once the new one is in the ref
SupersedePrevious(prevController, ab) ==
    IF prevController # 0 THEN ab \cup {prevController} ELSE ab

\* sendMessage up to its await of the adapter (lines 107-174)
sendMessage(l, text, attachments, history, modelId, isHidden, origin) ==
    LET g == Len(gens) + 1
        userMsg == Msg(nextId, "user", text, attachments, isHidden, FALSE, NoMeta)
        newHistory == Append(history, userMsg)
        botMsg == Msg(nextId + 1, "model", <<>>, <<>>, FALSE, FALSE, NoMeta)
        messagesWithBot == Append(newHistory, botMsg)
        prevController == abortControllerRef[l]
    IN  /\ modelId # ModelNone
        /\ nextId' = nextId + 2
        /\ messages' = [messages EXCEPT ![l] = messagesWithBot]
        /\ isLoading' = [isLoading EXCEPT ![l] = TRUE]
        /\ abortControllerRef' = [abortControllerRef EXCEPT ![l] = g]
        /\ aborted' = SupersedePrevious(prevController, aborted)
        /\ gens' = Append(gens,
               [lane |-> l, origin |-> origin, path |-> AdapterPath(modelId, provider),
                messagesWithBot |-> messagesWithBot, botMsgId |-> botMsg.id,
                accumulatedText |-> <<>>, accumulatedMetadata |-> NoMeta,
                reads |-> 0, incs |-> 0, requests |-> AdapterRequests,
                pc |-> "awaiting", cause |-> NoError,
                rethrown |-> FALSE, sinks |-> 1, lastSink |-> messagesWithBot,
                skipped |-> <<>>])

\* if (!modelId) throw new Error(...): the call is rejected before it touches anything
sendMessageNoModel(l) ==
    UNCHANGED <<abortControllerRef, isLoading, aborted, gens, messages, nextId>>

\* the application sends the typed text against the lane's current messages
\* (App.tsx handleSendMessage)
Send(l) ==
    IF currentModelId = ModelNone
    THEN sendMessageNoModel(l)
    ELSE sendMessage(l, TextHi, <<>>, messages[l], currentModelId, FALSE, "send")

\* a guard that does not look at the role of the message before the last
CanRegenerate_IgnoresUserTurn(history) ==
    /\ Len(history) >= 2
    /\ history[Len(history)].role = "model"

\* regenerate, lines 193-199: the guard under which it goes on
CanRegenerate(history) ==
    /\ Len(history) >= 1
    /\ history[Len(history)].role = "model"
    /\ Len(history) >= 2
    /\ history[Len(history) - 1].role = "user"

\* a regenerate that re-sends against the history that still holds the user turn
RegenerateBase_KeepsUserTurn(history) == SubSeq(history, 1, Len(history) - 1)

\* regenerate, line 206: the base history of the re-send
RegenerateBase(history) == SubSeq(history, 1, Len(history) - 2)

\* regenerate(messages, currentModelId, setMessages), as the application calls it
Regenerate(l) ==
        LET history == messages[l]
            modelId == currentModelId
            historyWithoutLastBot == SubSeq(history, 1, Len(history) - 1)
            lastUserMsg == historyWithoutLastBot[Len(historyWithoutLastBot)]
        IN  IF ~CanRegenerate(history)
            THEN UNCHANGED <<abortControllerRef, isLoading, aborted, gens, messages, nextId>>
            ELSE IF modelId = ModelNone
            THEN /\ messages' = [messages EXCEPT ![l] = historyWithoutLastBot]
                 /\ UNCHANGED <<abortControllerRef, isLoading, aborted, gens, nextId>>
            ELSE sendMessage(l, lastUserMsg.content, lastUserMsg.attachments,
                             RegenerateBase(history), modelId,
                             lastUserMsg.isHidden, "regenerate")

\* an onUpdate callback that writes the text into every model message of the list
IncrementList_EveryModelTurn(gr, content, metadata) ==
    [i \in 1..Len(gr.messagesWithBot) |->
        LET m == gr.messagesWithBot[i]
        IN  IF m.role = "model" THEN [m EXCEPT !.content = content] ELSE m]

\* onUpdate callback of sendMessage (lines 163-172): the list given to the sink
IncrementList(gr, content, metadata) ==
    [i \in 1..Len(gr.messagesWithBot) |->
        LET m == gr.messagesWithBot[i]
        IN  IF m.id = gr.botMsgId
            THEN [m EXCEPT !.content = content,
                           !.groundingMetadata =
                               IF metadata # NoMeta THEN metadata ELSE m.groundingMetadata]
            ELSE m]

\* catch block of sendMessage, line 176: is the failure shown on the placeholder and re-raised
CatchMarksError(error) == error.name # "AbortError"

\* a catch block that shows the text but does not flag the message
ErrorList_NoFlag(gr, error) ==
    [i \in 1..Len(gr.messagesWithBot) |->
        LET m == gr.messagesWithBot[i]
        IN  IF m.id = gr.botMsgId THEN [m EXCEPT !.content = error.message] ELSE m]

\* catch block of sendMessage, lines 177-179: the list given to the sink
ErrorList(gr, error) ==
    [i \in 1..Len(gr.messagesWithBot) |->
        LET m == gr.messagesWithBot[i]
        IN  IF m.id = gr.botMsgId
            THEN [m EXCEPT !.isError = TRUE,
                           !.content = IF error.message # <<>> THEN error.message
                                       ELSE MsgGenerationFailed]
            ELSE m]

\* a finally block that clears the ref only when it still holds its own controller
FinallyRef_OwnOnly(ref, g) == IF ref = g THEN 0 ELSE ref

\* finally block of sendMessage, lines 182-185
FinallyRef(ref, g) == 0
\* a finally block that leaves the loading flag as it finds it
FinallyLoading_LeavesFlag(loading, ref, g) == loading

FinallyLoading(loading, ref, g) == FALSE

\* the generation record after one onUpdate(content, metadata)
AfterIncrement(gr, content, metadata) ==
    [gr EXCEPT !.incs = @ + 1, !.sinks = @ + 1,
               !.lastSink = IncrementList(gr, content, metadata)]

\* the awaited adapter call of generation g settles: gr is the generation's record at
\* that moment, raw the failure of the adapter's operation (NoError when it resolved);
\* the catch and finally blocks of sendMessage run
Settle(g, gr, raw) ==
    LET l == gr.lane
        error == sendMessageStreamFailure(raw)
        marks == raw # NoError /\ CatchMarksError(error)
        final == IF marks THEN ErrorList(gr, error) ELSE gr.lastSink
    IN  /\ gens' = [gens EXCEPT ![g] =
               [gr EXCEPT !.pc = "done", !.cause = raw, !.rethrown = marks,
                          !.sinks = IF marks THEN @ + 1 ELSE @, !.lastSink = final]]
        /\ messages' = [messages EXCEPT ![l] =
               IF gr.sinks # gens[g].sinks \/ marks THEN final ELSE @]
        /\ isLoading' = [isLoading EXCEPT ![l] = FinallyLoading(@, abortControllerRef[l], g)]
        /\ abortControllerRef' = [abortControllerRef EXCEPT ![l] = FinallyRef(@, g)]
        /\ UNCHANGED <<aborted, nextId>>

\* an adapter that hands on the last delta in place of the accumulated text
Accumulate_Replace(accumulatedText, delta) == delta

\* accumulatedText += text (geminiService.ts lines 672-674 and 806)
Accumulate(accumulatedText, delta) == accumulatedText \o delta

\* an adapter that forgets the metadata captured from earlier payloads
MergeMetadata_Forget(accumulatedMetadata, seen) == seen

\* streamGoogleMessage, lines 678-680: the metadata of a payload replaces the captured one
MergeMetadata(accumulatedMetadata, seen) ==
    IF seen # NoMeta THEN seen ELSE accumulatedMetadata

\* streamGoogleMessage, lines 669-683: one pass of the for-await loop, on payload chunk
GooglePayload(g, chunk) ==
    IF g \in aborted
    THEN Settle(g, gens[g], AbortError)
    ELSE LET text == Accumulate(gens[g].accumulatedText, chunk.text)
             meta == MergeMetadata(gens[g].accumulatedMetadata, chunk.meta)
             gr == [AfterIncrement(gens[g], text, meta) EXCEPT
                        !.accumulatedText = text, !.accumulatedMetadata = meta,
                        !.reads = @ + 1]
         IN  /\ gens' = [gens EXCEPT ![g] = gr]
             /\ messages' = [messages EXCEPT ![gr.lane] = gr.lastSink]
             /\ UNCHANGED <<abortControllerRef, isLoading, aborted, nextId>>

\* streamGoogleMessage, lines 669-683: the next payload of the native stream arrives
GoogleChunk(g) ==
    /\ Awaiting(g) /\ gens[g].path = "google" /\ TotalReads < MaxChunks
    /\ \E chunk \in Payloads : GooglePayload(g, chunk)

\* streamOpenAICompatibleMessage, lines 781-811: one read of the response body gives a
\* content delta (empty when the read holds no usable frame).  The body belongs to a
\* fetch made with the signal, so a read never yields data once the signal is aborted.
OpenAIRead(g) ==
    /\ Awaiting(g) /\ gens[g].path = "openai" /\ TotalReads < MaxChunks
    /\ g \notin aborted
    /\ \E contentChunk \in ContentChunks :
        LET text == Accumulate(gens[g].accumulatedText, contentChunk)
            gr == IF contentChunk # <<>>
                  THEN [AfterIncrement(gens[g], text, NoMeta) EXCEPT
                            !.accumulatedText = text, !.reads = @ + 1]
                  ELSE [gens[g] EXCEPT !.reads = @ + 1]
        IN  /\ gens' = [gens EXCEPT ![g] = gr]
            /\ messages' = [messages EXCEPT ![gr.lane] =
                   IF contentChunk # <<>> THEN gr.lastSink ELSE @]
            /\ UNCHANGED <<abortControllerRef, isLoading, aborted, nextId>>

\* streamOpenAICompatibleMessage, lines 768 and 782: the fetch or the pending read
\* rejects because the signal was aborted
OpenAIAborted(g) ==
    /\ Awaiting(g) /\ gens[g].path = "openai"
    /\ g \in aborted
    /\ Settle(g, gens[g], FetchAbortError)

\* the stream ends (for await falls through / the reader reports done)
StreamEnd(g) ==
    /\ Awaiting(g) /\ gens[g].path \in {"google", "openai"}
    /\ Settle(g, gens[g], NoError)

\* sendMessageStream, lines 589-602: generateVideo / generateImage resolves and its
\* content is handed to onUpdate
SingleShot(g) ==
    /\ Awaiting(g) /\ gens[g].path \in {"video", "image"}
    /\ LET content == IF gens[g].path = "video" THEN VideoContent ELSE ImageContent
           gr == [AfterIncrement(gens[g], content, NoMeta) EXCEPT
                      !.accumulatedText = content]
       IN  Settle(g, gr, NoError)

\* the adapter's awaited operation rejects for a reason other than cancellation
AdapterFails(g) ==
    /\ Awaiting(g)
    /\ \E raw \in RawFailures : Settle(g, gens[g], raw)

-----------------------------------------------------------------------------
(* The engine as a state machine *)

InitEngine ==
    /\ abortControllerRef = [l \in Lanes |-> 0]
    /\ isLoading = [l \in Lanes |-> FALSE]
    /\ aborted = {}
    /\ gens = <<>>
    /\ nextId = 1
    /\ \E c \in InitConfigs :
           /\ messages = [l \in Lanes |-> IF l = "left" THEN c.history ELSE <<>>]
           /\ currentModelId = c.modelId
           /\ provider = c.provider

IdleRetrieve == rq = <<>> /\ rfiles = <<>> /\ rmax = 0 /\ rout = <<>> /\ rcalled = FALSE
IdleHistory == hin = <<>> /\ hout = <<>> /\ hcalled = FALSE

IdleRetry == rt = [pc |-> "idle"]
IdleTranslate == tr = [called |-> FALSE]
IdleApp == app = [mode |-> "single"]
IdleSvc == svc = [op |-> "none"]

Init == InitEngine /\ IdleRetrieve /\ IdleHistory /\ IdleRetry /\ IdleTranslate /\ IdleApp /\ IdleSvc

ActiveLanes == {"left"}

\* the steps of the engine while fewer than MaxGens calls of sendMessage were made
Next ==
    \/ \E l \in ActiveLanes : Len(gens) < MaxGens /\ Send(l) /\ UNCHANGED engineFrame
    \/ \E l \in ActiveLanes : Len(gens) < MaxGens /\ Regenerate(l) /\ UNCHANGED engineFrame
    \/ \E l \in ActiveLanes : Stop(l) /\ UNCHANGED engineFrame
    \/ \E g \in Gens : GoogleChunk(g) /\ UNCHANGED engineFrame
    \/ \E g \in Gens : OpenAIRead(g) /\ UNCHANGED engineFrame
    \/ \E g \in Gens : OpenAIAborted(g) /\ UNCHANGED engineFrame
    \/ \E g \in Gens : StreamEnd(g) /\ UNCHANGED engineFrame
    \/ \E g \in Gens : SingleShot(g) /\ UNCHANGED engineFrame
    \/ \E g \in Gens : AdapterFails(g) /\ UNCHANGED engineFrame

Spec == Init /\ [][Next]_vars

\* the same engine, followed for up to MaxOverlap calls of sendMessage
NextOverlap ==
    \/ \E l \in ActiveLanes : Len(gens) < MaxOverlap /\ Send(l) /\ UNCHANGED engineFrame
    \/ \E l \in ActiveLanes : Len(gens) < MaxOverlap /\ Regenerate(l) /\ UNCHANGED engineFrame
    \/ \E l \in ActiveLanes : Stop(l) /\ UNCHANGED engineFrame
    \/ \E g \in Gens : GoogleChunk(g) /\ UNCHANGED engineFrame
    \/ \E g \in Gens : OpenAIRead(g) /\ UNCHANGED engineFrame
    \/ \E g \in Gens : OpenAIAborted(g) /\ UNCHANGED engineFrame
    \/ \E g \in Gens : StreamEnd(g) /\ UNCHANGED engineFrame
    \/ \E g \in Gens : SingleShot(g) /\ UNCHANGED engineFrame
    \/ \E g \in Gens : AdapterFails(g) /\ UNCHANGED engineFrame

SpecOverlap == Init /\ [][NextOverlap]_vars

-----------------------------------------------------------------------------
(* Properties of the session controller *)

Done(g) == g \in Gens /\ gens[g].pc = "done"
Cancelled(g) == Done(g) /\ gens[g].cause.name = "AbortError"
Failed(g) == Done(g) /\ gens[g].cause # NoError /\ gens[g].cause.name # "AbortError"
Succeeded(g) == Done(g) /\ gens[g].cause = NoError
\* the placeholder entries of the list generation g last gave to the sink
Placeholder(g) == WithId(gens[g].lastSink, gens[g].botMsgId)
LiveInFlight(l) == {g \in InFlight(l) : g \notin aborted}

\* C1: on a lane there are never two in-flight generations whose cancellation
\* tokens are both non-cancelled.
C1_AtMostOneLiveToken == \A l \in Lanes : Cardinality(LiveInFlight(l)) <= 1

\* C2: once a generation's token is cancelled, no increment of that generation is
\* applied to the sink any more, on any adapter path.
C2_NoIncrementAfterCancel ==
    [][\A g \in Gens : g \in aborted => gens'[g].incs = gens[g].incs]_vars

\* C3: a generation that ends because its token was cancelled never flags its
\* placeholder as errored and never re-raises to the caller of send.
C3_CancelIsNotAnError ==
    \A g \in Gens :
        Cancelled(g) =>
            /\ ~gens[g].rethrown
            /\ \A i \in Placeholder(g) : ~gens[g].lastSink[i].isError

\* C4: when the adapter fails for a reason other than cancellation, the last list the
\* send gives to the sink holds the placeholder, still in its place, flagged as errored
\* and carrying the translated message, and send re-raises the failure.
C4_FailureMarksPlaceholder ==
    \A g \in Gens :
        Failed(g) =>
            LET last == gens[g].lastSink
                n == Len(gens[g].messagesWithBot)
            IN  /\ Len(last) = n
                /\ Placeholder(g) = {n}
                /\ last[n].role = "model"
                /\ last[n].isError
                /\ last[n].content = translateError(gens[g].cause)
                /\ \A i \in 1..(n - 1) : last[i] = gens[g].messagesWithBot[i]
                /\ gens[g].rethrown

C4_Witness ==
    \E g \in Gens :
        /\ Failed(g)
        /\ gens[g].lastSink[Len(gens[g].lastSink)].content = MsgServer
        /\ messages[gens[g].lane] = gens[g].lastSink

\* C5: whenever a send finishes, by success, failure or cancellation, the lane's token
\* slot is empty and its generating flag is false immediately afterwards.
C5_FinishClearsLane ==
    [][\A g \in Gens :
           (gens[g].pc = "awaiting" /\ gens'[g].pc = "done") =>
               /\ abortControllerRef'[gens[g].lane] = 0
               /\ isLoading'[gens[g].lane] = FALSE]_vars

\* a send has finished while a later generation of the lane is still in flight
C5_Witness ==
    \E g1, g2 \in Gens :
        /\ g1 < g2 /\ gens[g1].lane = gens[g2].lane
        /\ Done(g1) /\ g2 \in InFlight(gens[g2].lane)
        /\ abortControllerRef[gens[g1].lane] = 0 /\ ~isLoading[gens[g1].lane]

\* C6: stop is idempotent; on an empty slot it changes nothing; on a slot holding a
\* token it cancels exactly that token and empties the slot.
C6_StopIdempotent ==
    \A l \in Lanes :
        LET ref == abortControllerRef[l]
            once == stopGeneration(ref, isLoading[l], aborted)
            twice == stopGeneration(once.ref, once.loading, once.aborted)
        IN  /\ twice = once
            /\ ref = 0 => once = [ref |-> 0, loading |-> isLoading[l], aborted |-> aborted]
            /\ ref # 0 => once.ref = 0 /\ once.aborted = aborted \cup {ref}

\* stop has cancelled the newest generation of a lane, which is still unwinding
C6_Witness ==
    \E l \in Lanes :
        /\ abortControllerRef[l] = 0
        /\ Len(gens) \in InFlight(l)
        /\ Len(gens) \in aborted

\* C7: for a history ending with a user turn and a model turn, regenerate issues a send
\* with that user turn's text, attachments and hidden flag on the messages before it;
\* the optimistic list given to the sink is as long as the input history and differs
\* from it only in its last two entries.
C7_RegenerateResends ==
    [][\A l \in Lanes :
           (Len(gens') = Len(gens) + 1 /\ gens'[Len(gens')].lane = l
                /\ gens'[Len(gens')].origin = "regenerate") =>
               LET history == messages[l]
                   n == Len(history)
                   optimistic == gens'[Len(gens')].messagesWithBot
               IN  /\ CanRegenerate(history)
                   /\ messages'[l] = optimistic
                   /\ Len(optimistic) = n
                   /\ \A i \in 1..(n - 2) : optimistic[i] = history[i]
                   /\ optimistic[n - 1].role = "user"
                   /\ optimistic[n - 1].content = history[n - 1].content
                   /\ optimistic[n - 1].attachments = history[n - 1].attachments
                   /\ optimistic[n - 1].isHidden = history[n - 1].isHidden
                   /\ optimistic[n].role = "model"
                   /\ optimistic[n].content = <<>>
                   /\ ~optimistic[n].isError]_vars

\* a hidden user turn with an attachment has been re-sent
C7_Witness ==
    \E g \in Gens :
        /\ gens[g].origin = "regenerate"
        /\ LET opt == gens[g].messagesWithBot
           IN  /\ opt[Len(opt) - 1].isHidden
               /\ opt[Len(opt) - 1].attachments = <<AttImage>>
               /\ opt[Len(opt) - 1].content = TextYo


-----------------------------------------------------------------------------
(* Retrieval engine: retrieveRelevantContext (src/hooks/useChatEngine.ts) *)

CHUNK_SIZE == 800
OVERLAP == 100
FallbackChars == 2000
TopChunks == 15

WordChars ==
    {"a", "b", "c", "d", "e", "f", "g", "h", "i", "j", "k", "l", "m", "n", "o", "p", "q",
     "r", "s", "t", "u", "v", "w", "x", "y", "z", "0", "1", "2", "3", "4", "5", "6", "7",
     "8", "9", "_"} \cup {UpperChars[i] : i \in DOMAIN UpperChars}
SpaceChars == {" ", "\n", "\t"}

\* .replace(/[^\w\s\u4e00-\u9fa5]/g, ''): the text uses no CJK characters
StripPunctuation(s) == SelectSeq(s, LAMBDA c : c \in WordChars \cup SpaceChars)

\* .split(/\s+/).filter(k => k.length > 1): the maximal runs of non-space characters
\* that are longer than one character, in order
\* the offset of the last character of the run of non-space characters that starts at i
TokenEnd(s, i) ==
    CHOOSE j \in i..Len(s) :
        /\ \A k \in i..j : s[k] \notin SpaceChars
        /\ j = Len(s) \/ s[j + 1] \in SpaceChars

RECURSIVE SplitKeywords(_, _)
SplitKeywords(s, i) ==
    IF i > Len(s) THEN <<>>
    ELSE IF s[i] \in SpaceChars THEN SplitKeywords(s, i + 1)
    ELSE LET token == SubSeq(s, i, TokenEnd(s, i))
         IN  (IF Len(token) > 1 THEN <<token>> ELSE <<>>)
             \o SplitKeywords(s, TokenEnd(s, i) + 1)

Keywords(query) == SplitKeywords(StripPunctuation(toLowerCase(query)), 1)

\* the score of one window: keywords.forEach(k => { if (lowerChunk.includes(k)) score += 1 })
RECURSIVE ChunkScore(_, _, _)
ChunkScore(lowerChunk, keywords, i) ==
    IF i > Len(keywords) THEN 0
    ELSE (IF includes(lowerChunk, keywords[i]) THEN 1 ELSE 0)
         + ChunkScore(lowerChunk, keywords, i + 1)

\* a window that is kept whatever it scores
KeepsChunk_Always(score) == score >= 0

\* if (score > 0) allChunks.push(...)
KeepsChunk(score) == score > 0

\* a while loop that advances by the whole window, without overlap
RECURSIVE FileChunks_NoOverlap(_, _, _)
FileChunks_NoOverlap(file, keywords, start) ==
    IF start >= Len(file.content) THEN <<>>
    ELSE LET end == IF start + CHUNK_SIZE < Len(file.content)
                    THEN start + CHUNK_SIZE ELSE Len(file.content)
             chunkText == slice(file.content, start, end)
             score == ChunkScore(toLowerCase(chunkText), keywords, 1)
         IN  (IF KeepsChunk(score)
              THEN <<[fileName |-> file.name, content |-> chunkText, score |-> score]>>
              ELSE <<>>)
             \o FileChunks_NoOverlap(file, keywords, start + CHUNK_SIZE)

\* the while loop over one file, from offset start
RECURSIVE FileChunks(_, _, _)
FileChunks(file, keywords, start) ==
    IF start >= Len(file.content) THEN <<>>
    ELSE LET end == IF start + CHUNK_SIZE < Len(file.content)
                    THEN start + CHUNK_SIZE ELSE Len(file.content)
             chunkText == slice(file.content, start, end)
             score == ChunkScore(toLowerCase(chunkText), keywords, 1)
         IN  (IF KeepsChunk(score)
              THEN <<[fileName |-> file.name, content |-> chunkText, score |-> score]>>
              ELSE <<>>)
             \o FileChunks(file, keywords, start + (CHUNK_SIZE - OVERLAP))

\* files.forEach(...)
RECURSIVE AllChunks(_, _, _)
AllChunks(files, keywords, i) ==
    IF i > Len(files) THEN <<>>
    ELSE FileChunks(files[i], keywords, 0) \o AllChunks(files, keywords, i + 1)

\* a ranking that leaves the windows in encounter order
SortByScore_Unsorted(chunks, s) == chunks

\* allChunks.sort((a, b) => b.score - a.score): stable, highest score first
RECURSIVE SortByScore(_, _)
SortByScore(chunks, s) ==
    IF s < 0 THEN <<>>
    ELSE SelectSeq(chunks, LAMBDA c : c.score = s) \o SortByScore(chunks, s - 1)

\* the decimal digits of a number, as `${n}` prints them
Digit == <<"0", "1", "2", "3", "4", "5", "6", "7", "8", "9">>
RECURSIVE ToDigits(_)
ToDigits(n) == IF n < 10 THEN <<Digit[n + 1]>> ELSE ToDigits(n \div 10) \o <<Digit[(n % 10) + 1]>>

EntryHead ==
    <<"\n", "-", "-", "-", " ", "F", "r", "a", "g", "m", "e", "n", "t", " ", "f", "r", "o",
      "m", " ">>
EntryMid ==
    <<" ", "(", "R", "e", "l", "e", "v", "a", "n", "c", "e", ":", " ">>
EntryTail ==
    <<")", " ", "-", "-", "-", "\n">>
ContextHeader ==
    <<"[", "S", "m", "a", "r", "t", " ", "C", "o", "n", "t", "e", "x", "t", " ", "R", "e", "t",
      "r", "i", "e", "v", "a", "l", "]", "\n", "T", "h", "e", " ", "f", "o", "l", "l", "o",
      "w", "i", "n", "g", " ", "a", "r", "e", " ", "r", "e", "l", "e", "v", "a", "n", "t", " ",
      "d", "o", "c", "u", "m", "e", "n", "t", " ", "f", "r", "a", "g", "m", "e", "n", "t", "s",
      " ", "f", "o", "u", "n", "d", " ", "f", "o", "r", " ", "t", "h", "e", " ", "u", "s", "e",
      "r", "'", "s", " ", "q", "u", "e", "r", "y", ":", "\n">>
NL == <<"\n">>

\* `\n--- Fragment from ${chunk.fileName} (Relevance: ${chunk.score}) ---\n${chunk.content}\n`
Entry(chunk) ==
    EntryHead \o chunk.fileName \o EntryMid \o ToDigits(chunk.score) \o EntryTail
        \o chunk.content \o NL

\* the for loop that fills contextBuffer: stops at the first entry that does not fit
RECURSIVE Assemble(_, _, _, _)
Assemble(topChunks, i, usedChars, maxChars) ==
    IF i > Len(topChunks) THEN <<>>
    ELSE LET entry == Entry(topChunks[i])
         IN  IF usedChars + Len(entry) > maxChars THEN <<>>
             ELSE entry \o Assemble(topChunks, i + 1, usedChars + Len(entry), maxChars)

\* files.map(f => f.content.slice(0, 2000)).join('\n\n')
RECURSIVE Fallback(_, _)
Fallback(files, i) ==
    IF i > Len(files) THEN <<>>
    ELSE slice(files[i].content, 0, FallbackChars)
         \o (IF i < Len(files) THEN NL \o NL ELSE <<>>)
         \o Fallback(files, i + 1)

retrieveRelevantContext(query, files, maxChars) ==
    IF Len(files) = 0 THEN <<>>
    ELSE LET keywords == Keywords(query)
         IN  IF Len(keywords) = 0 THEN Fallback(files, 1)
             ELSE LET allChunks == AllChunks(files, keywords, 1)
                      sorted == SortByScore(allChunks, Len(keywords))
                      topChunks == SubSeq(sorted, 1, IF Len(sorted) < TopChunks
                                                       THEN Len(sorted) ELSE TopChunks)
                      contextBuffer == Assemble(topChunks, 1, 0, maxChars)
                 IN  IF contextBuffer = <<>> THEN <<>>
                     ELSE ContextHeader \o contextBuffer \o NL \o NL

DefaultMaxChars == 30000

\* Inputs of retrieval
Repeat(c, n) == [i \in 1..n |-> c]

QueryRefund == <<"r", "e", "f", "u", "n", "d", " ", "p", "o", "l", "i", "c", "y">>
QueryAb == <<"a", "b">>
QueryUpperPunct == <<"A", "B", "?">>
QuerySingleChar == <<"a">>
QueryEmpty == <<>>
QueryAbsent == <<"z", "z">>
QueryTwo == <<"a", "b", " ", "c", "d">>
Queries == {QueryRefund, QueryAb, QueryUpperPunct, QuerySingleChar, QueryEmpty,
            QueryAbsent, QueryTwo}

FileSmall == [name |-> <<"f">>, content |-> <<"x", "x", " ", "a", "b", " ", "y", "y">>]
FileUpper == [name |-> <<"g">>, content |-> <<"X", "X", " ", "A", "B">>]
\* 5000 unrelated characters, then the phrase once near the end
FileLong == [name |-> <<"h">>, content |-> Repeat("x", 5000) \o <<" ">> \o QueryRefund \o <<".">>]
FileFiller == [name |-> <<"k">>, content |-> Repeat(".", 2500)]
FileSets == {<<>>, <<FileSmall>>, <<FileUpper>>, <<FileLong>>, <<FileFiller>>,
             <<FileSmall, FileUpper>>}

MaxCharsChoices == {DefaultMaxChars, 151, 60, 40}

EngineIdle ==
    /\ abortControllerRef = [l \in Lanes |-> 0]
    /\ isLoading = [l \in Lanes |-> FALSE]
    /\ aborted = {}
    /\ gens = <<>>
    /\ messages = [l \in Lanes |-> <<>>]
    /\ nextId = 1
    /\ currentModelId = ModelNone
    /\ provider = "google"

InitRetrieve ==
    /\ EngineIdle /\ IdleHistory /\ IdleRetry /\ IdleTranslate /\ IdleApp /\ IdleSvc
    /\ rq \in Queries
    /\ rfiles \in FileSets
    /\ rmax \in MaxCharsChoices
    /\ rout = <<>>
    /\ rcalled = FALSE

\* one call retrieveRelevantContext(rq, rfiles, rmax)
Retrieve ==
    /\ ~rcalled
    /\ rcalled' = TRUE
    /\ rout' = retrieveRelevantContext(rq, rfiles, rmax)
    /\ UNCHANGED <<rq, rfiles, rmax>>

NextRetrieve == Retrieve /\ UNCHANGED <<engineVars, configVars, historyVars, rt, tr, app, svc>>

SpecRetrieve == InitRetrieve /\ [][NextRetrieve]_vars

-----------------------------------------------------------------------------
(* Properties of retrieval *)

\* C8: for every query, file set and maxChars the returned string is at most maxChars
\* long, on the keyword path (header included) and on the no-keyword fallback path.
C8_WithinMaxChars == rcalled => Len(rout) <= rmax

\* some file's text contains keyword k, case-insensitively
SomeFileContains(files, k) ==
    \E i \in 1..Len(files) : includes(toLowerCase(files[i].content), k)
NoFileContainsAnyKeyword(query, files) ==
    \A j \in 1..Len(Keywords(query)) : ~SomeFileContains(files, Keywords(query)[j])

\* C9 as stated: retrieve returns the empty string whenever no file's text contains any
\* of the query's keywords.
C9_EmptyWhenNoFileContainsKeyword ==
    (rcalled /\ NoFileContainsAnyKeyword(rq, rfiles)) => rout = <<>>

\* C9 as amended: retrieve returns the empty string whenever the query has at least one
\* keyword and no file's text contains any of the keywords (case-insensitively).
C9_EmptyWhenKeywordsMatchNothing ==
    (rcalled /\ Keywords(rq) # <<>> /\ NoFileContainsAnyKeyword(rq, rfiles)) => rout = <<>>

C9_Witness ==
    /\ rcalled /\ rfiles # <<>> /\ Keywords(rq) # <<>>
    /\ NoFileContainsAnyKeyword(rq, rfiles)
    /\ rout = <<>>


-----------------------------------------------------------------------------
(* History normalisation of the native family: GeminiService.convertHistoryToGemini *)

MaxHistory == 3

\* m.content.trim() is not empty
HasNonSpace(s) == \E i \in 1..Len(s) : s[i] \notin SpaceChars

TextPart(s) == [text |-> s]
InlinePart(att) == [inlineData |-> [data |-> att.base64, mimeType |-> att.mimeType]]
FillerModelTurn == [role |-> "model", parts |-> <<TextPart(Ellipsis)>>]

\* messages.filter(m => !m.isError && m.role !== MessageRole.SYSTEM)
ValidMessages(msgs) == SelectSeq(msgs, LAMBDA m : ~m.isError /\ m.role # "system")

\* if (role === 'user' && lastRole === 'user'): a filler turn goes before this turn
NeedsFiller(role, lastRole) == role = "user" /\ lastRole = "user"

\* the for loop of convertHistoryToGemini from message i on
RECURSIVE ConvertFrom(_, _, _)
ConvertFrom(valid, i, lastRole) ==
    IF i > Len(valid) THEN <<>>
    ELSE LET m == valid[i]
             role == IF m.role = "user" THEN "user" ELSE "model"
             textParts == IF HasNonSpace(m.content) THEN <<TextPart(m.content)>> ELSE <<>>
             attParts == [j \in 1..Len(m.attachments) |-> InlinePart(m.attachments[j])]
             found == textParts \o attParts
             parts == IF found = <<>> THEN <<TextPart(<<" ">>)>> ELSE found
         IN  IF found = <<>> /\ m.content = <<>>
             THEN ConvertFrom(valid, i + 1, lastRole)
             ELSE (IF NeedsFiller(role, lastRole)
                   THEN <<FillerModelTurn>> ELSE <<>>)
                  \o <<[role |-> role, parts |-> parts]>>
                  \o ConvertFrom(valid, i + 1, role)

convertHistoryToGemini(msgs) ==
    LET geminiContents == ConvertFrom(ValidMessages(msgs), 1, "")
    IN  IF Len(geminiContents) > 0 /\ geminiContents[Len(geminiContents)].role = "user"
        THEN Append(geminiContents, FillerModelTurn)
        ELSE geminiContents

\* the messages a history is made of
HistoryKinds ==
    {Msg(0, "user", TextHi, <<>>, FALSE, FALSE, NoMeta),
     Msg(0, "model", TextYo, <<>>, FALSE, FALSE, NoMeta),
     Msg(0, "user", <<>>, <<>>, FALSE, FALSE, NoMeta),
     Msg(0, "user", <<" ">>, <<>>, FALSE, FALSE, NoMeta),
     Msg(0, "user", <<>>, <<AttImage>>, FALSE, FALSE, NoMeta),
     Msg(0, "model", MsgServer, <<>>, FALSE, TRUE, NoMeta),
     Msg(0, "system", TextHi, <<>>, FALSE, FALSE, NoMeta)}

InitHistory ==
    /\ EngineIdle /\ IdleRetrieve /\ IdleRetry /\ IdleTranslate /\ IdleApp /\ IdleSvc
    /\ hin \in UNION {[1..n -> HistoryKinds] : n \in 0..MaxHistory}
    /\ hout = <<>>
    /\ hcalled = FALSE

\* one call convertHistoryToGemini(hin)
Convert ==
    /\ ~hcalled
    /\ hcalled' = TRUE
    /\ hout' = convertHistoryToGemini(hin)
    /\ UNCHANGED hin

NextHistory == Convert /\ UNCHANGED <<engineVars, configVars, retrieveVars, rt, tr, app, svc>>

SpecHistory == InitHistory /\ [][NextHistory]_vars

-----------------------------------------------------------------------------
(* Properties of history normalisation *)

\* the turns of the input that the conversion keeps: not errored, not system, and
\* with some content or attachment
RealTurns(msgs) ==
    SelectSeq(ValidMessages(msgs), LAMBDA m : m.content # <<>> \/ m.attachments # <<>>)

\* C10: the normalised sequence never holds two consecutive turns of the same role, and
\* it ends with a model-role turn if the last real turn is a user turn.
C10_StrictAlternation ==
    hcalled =>
        /\ \A i \in 1..(Len(hout) - 1) : hout[i].role # hout[i + 1].role
        /\ (RealTurns(hin) # <<>> /\ RealTurns(hin)[Len(RealTurns(hin))].role = "user")
               => (hout # <<>> /\ hout[Len(hout)].role = "model")

-----------------------------------------------------------------------------
(* Bounded retry with exponential backoff: retry (src/services/geminiService.ts) *)

P_timeout == <<"t", "i", "m", "e", "o", "u", "t">>
P_504 == <<"5", "0", "4">>

\* the default retryableErrors, each a case-insensitive pattern
RetryablePatterns ==
    <<P_network_error, P_failed_to_fetch, P_connection_refused, P_load_failed,
      P_timeout, P_429, P_500, P_502, P_503, P_504>>

DefaultMaxRetries == 3
DefaultDelay == 1000

MsgRetryFailed == <<"MSG_RETRY_FAILED">>

\* retryableErrors.some(regex => regex.test(errorMessage))
IsRetryable(error) ==
    LET errorMessage == toLowerCase(error.message)
    IN  \E k \in 1..Len(RetryablePatterns) : includes(errorMessage, RetryablePatterns[k])

\* a backoff that does not grow
backoffDelay_Flat(delay, i) == delay

\* const backoffDelay = delay * Math.pow(2, i)
backoffDelay(delay, i) == delay * 2^i

\* a retry that re-raises a failure of its own in place of the operation's
Rethrown_Wrapped(error) == [name |-> "Error", message |-> MsgRetryFailed]

\* throw error (line 44): what the call rejects with
Rethrown(error) == error

\* the outcomes of one invocation of the operation
OpValue == [ok |-> TRUE, value |-> "v"]
Op503 == [ok |-> FALSE, error |-> [name |-> "Error", message |-> <<"H", "T", "T", "P", " ", "E", "r", "r", "o", "r", " ", "5", "0", "3", ":", " ", "b", "u", "s", "y">>]]
Op401 == [ok |-> FALSE, error |-> [name |-> "Error", message |-> <<"H", "T", "T", "P", " ", "E", "r", "r", "o", "r", " ", "4", "0", "1", ":", " ", "U", "n", "a", "u", "t", "h", "o", "r", "i", "z", "e", "d">>]]
OpFetch == [ok |-> FALSE, error |-> [name |-> "TypeError", message |-> <<"F", "a", "i", "l", "e", "d", " ", "t", "o", " ", "f", "e", "t", "c", "h">>]]
OpOutcomes == {OpValue, Op503, Op401, OpFetch}

\* the attempt budgets and base delays retry is called with (the balance lookup
\* passes 2; the model lists pass nothing and get the defaults)
RetryBudgets == {0, 1, 2, DefaultMaxRetries, DefaultMaxRetries + 1}
RetryDelays == {DefaultDelay, 250}
\* what the operation does on its first, second, ... invocation
OpScripts == [1..(DefaultMaxRetries + 1) -> OpOutcomes]

InitRetry ==
    /\ EngineIdle /\ IdleRetrieve /\ IdleHistory /\ IdleTranslate /\ IdleApp /\ IdleSvc
    /\ \E fn \in OpScripts, maxRetries \in RetryBudgets, delay \in RetryDelays :
           rt = [pc |-> "loop", fn |-> fn, maxRetries |-> maxRetries, delay |-> delay,
                 i |-> 0, calls |-> 0, waits |-> <<>>,
                 result |-> "none", thrown |-> NoError]

\* one pass of the loop body up to its next await: fn() is invoked and settles (lines 33-49)
RetryAttempt ==
    /\ rt.pc = "loop" /\ rt.i < rt.maxRetries
    /\ LET outcome == rt.fn[rt.calls + 1]
           called == [rt EXCEPT !.calls = @ + 1]
       IN  rt' = IF outcome.ok
                 THEN [called EXCEPT !.pc = "returned", !.result = outcome.value]
                 ELSE IF ~IsRetryable(outcome.error) \/ rt.i = rt.maxRetries - 1
                 THEN [called EXCEPT !.pc = "thrown", !.thrown = Rethrown(outcome.error)]
                 ELSE [called EXCEPT !.pc = "waiting",
                                     !.waits = Append(@, backoffDelay(rt.delay, rt.i))]

\* the backoff timer fires and the loop goes on (line 49, then i++)
RetryWake ==
    /\ rt.pc = "waiting"
    /\ rt' = [rt EXCEPT !.pc = "loop", !.i = @ + 1]

\* the loop ends without having returned or thrown (line 53)
RetryLoopEnds ==
    /\ rt.pc = "loop" /\ rt.i >= rt.maxRetries
    /\ rt' = [rt EXCEPT !.pc = "thrown",
                        !.thrown = IF rt.calls > 0 THEN rt.fn[rt.calls].error
                                   ELSE [name |-> "Error", message |-> MsgRetryFailed]]

NextRetry ==
    \/ RetryAttempt /\ UNCHANGED <<engineVars, configVars, retrieveVars, historyVars, tr, app, svc>>
    \/ RetryWake /\ UNCHANGED <<engineVars, configVars, retrieveVars, historyVars, tr, app, svc>>
    \/ RetryLoopEnds /\ UNCHANGED <<engineVars, configVars, retrieveVars, historyVars, tr, app, svc>>

SpecRetry == InitRetry /\ [][NextRetry]_vars

\* the operation settles and timers fire: every enabled step of retry is eventually taken
SpecRetryLive == InitRetry /\ [][NextRetry]_vars /\ WF_vars(NextRetry)

-----------------------------------------------------------------------------
(* Properties of retry *)

RetrySettled == rt.pc \in {"returned", "thrown"}

\* the failed invocations that were followed by a wait
WaitsDue == IF RetrySettled /\ rt.calls > 0 THEN rt.calls - 1 ELSE rt.calls

\* two retryable failures, then success, under the default budget and delay
TwoFailuresThenSuccess ==
    /\ rt.fn[1] = Op503 /\ rt.fn[2] = Op503 /\ rt.fn[3] = OpValue
    /\ rt.maxRetries = DefaultMaxRetries /\ rt.delay = DefaultDelay

\* C11: retry waits delay * 2^i after the i-th failed attempt (i from 0) when a retry
\* follows, and at no other time; an operation failing twice with a 503 and then
\* succeeding is invoked three times, with waits 1000 and 2000 under the defaults, and
\* retry returns the operation's value
C11_BackoffSchedule ==
    /\ Len(rt.waits) = WaitsDue
    /\ \A k \in 1..Len(rt.waits) : rt.waits[k] = rt.delay * 2^(k - 1)
    /\ (TwoFailuresThenSuccess /\ RetrySettled) =>
           /\ rt.pc = "returned" /\ rt.result = OpValue.value
           /\ rt.calls = 3 /\ rt.waits = <<1000, 2000>>

C11_Witness == TwoFailuresThenSuccess /\ rt.pc = "returned" /\ Len(rt.waits) = 2

\* what retry must have done whenever it is at rest or has settled
C12_Safety ==
    /\ rt.calls <= rt.maxRetries
    /\ (rt.pc = "thrown" /\ rt.calls > 0) =>
           /\ ~rt.fn[rt.calls].ok
           /\ rt.thrown = rt.fn[rt.calls].error
           /\ Len(rt.waits) = rt.calls - 1
           /\ ~IsRetryable(rt.thrown) \/ rt.calls = rt.maxRetries
    /\ (rt.calls > 0 /\ ~rt.fn[rt.calls].ok /\ ~IsRetryable(rt.fn[rt.calls].error)) =>
           rt.pc = "thrown"
    /\ (rt.calls = rt.maxRetries /\ rt.calls > 0 /\ ~rt.fn[rt.calls].ok) => rt.pc = "thrown"

\* C12: retry invokes the operation at most maxRetries times and settles; a
\* non-retryable failure is propagated after the attempt that raised it, with no wait
\* after it, and so is the last of maxRetries retryable failures; what is propagated is
\* the operation's own failure
C12_BoundedAndTransparent == [](C12_Safety) /\ <>(RetrySettled)

\* the budget is used up by retryable failures and the last one is propagated
C12_Witness ==
    /\ rt.pc = "thrown" /\ rt.maxRetries = DefaultMaxRetries /\ rt.calls = DefaultMaxRetries
    /\ IsRetryable(rt.thrown) /\ rt.thrown = OpFetch.error

-----------------------------------------------------------------------------
(* One call of the translator: GeminiService.translateError *)

\* pieces of failure text, in the spelling providers use
Fragments ==
    {<<>>, <<"I", "S", "O", "-", "8", "8", "5", "9", "-", "1">>, <<"F", "a", "i", "l", "e", "d", " ", "t", "o", " ", "f", "e", "t", "c", "h">>, <<"4", "0", "1">>, <<"U", "n", "a", "u", "t", "h", "o", "r", "i", "z", "e", "d">>, <<"4", "0", "2">>, <<"4", "0", "3">>,
     <<"P", "e", "r", "m", "i", "s", "s", "i", "o", "n", " ", "d", "e", "n", "i", "e", "d">>, <<"4", "0", "4">>, <<"N", "o", "t", " ", "F", "o", "u", "n", "d">>, <<"4", "2", "9">>, <<"q", "u", "o", "t", "a">>, <<"5", "0", "3">>,
     <<"I", "n", "t", "e", "r", "n", "a", "l", " ", "S", "e", "r", "v", "e", "r", " ", "E", "r", "r", "o", "r">>, <<"4", "0", "0">>, <<"i", "n", "v", "a", "l", "i", "d", " ", "a", "r", "g", "u", "m", "e", "n", "t">>, <<"E", "C", "O", "N", "N", "R", "E", "S", "E", "T">>, <<"5", "0", "4">>}

FailureTexts == {<<"E", "r", "r", "o", "r", ":", " ">> \o a \o <<" ", "/", " ">> \o b : a \in Fragments, b \in Fragments}

InitTranslate ==
    /\ EngineIdle /\ IdleRetrieve /\ IdleHistory /\ IdleRetry /\ IdleApp /\ IdleSvc
    /\ \E text \in FailureTexts :
           tr = [called |-> FALSE, error |-> [name |-> "Error", message |-> text], out |-> <<>>]

\* one call translateError(tr.error)
Translate ==
    /\ ~tr.called
    /\ tr' = [tr EXCEPT !.called = TRUE, !.out = translateError(tr.error)]

NextTranslate == Translate /\ UNCHANGED <<engineVars, configVars, retrieveVars, historyVars, rt, app, svc>>

SpecTranslate == InitTranslate /\ [][NextTranslate]_vars

-----------------------------------------------------------------------------
(* Properties of the translator *)

\* the rules in the order the claim fixes: the patterns of each category
RuleOrder ==
    <<[category |-> "illegal-credential-characters", patterns |-> {P_iso_8859_1, P_headers}],
      [category |-> "network-unreachable",
       patterns |-> {P_failed_to_fetch, P_network_error, P_connection_refused, P_load_failed}],
      [category |-> "unauthorized", patterns |-> {P_401, P_unauthorized, P_invalid_api_key}],
      [category |-> "payment-required",
       patterns |-> {P_402, P_payment_required, P_requires_more_credits}],
      [category |-> "forbidden", patterns |-> {P_403, P_permission_denied, P_access_denied}],
      [category |-> "not-found", patterns |-> {P_404, P_not_found}],
      [category |-> "rate-limited", patterns |-> {P_429, P_rate_limit, P_quota}],
      [category |-> "upstream-server-error",
       patterns |-> {P_500, P_502, P_503, P_internal_server_error}],
      [category |-> "malformed-request", patterns |-> {P_400, P_invalid_argument}]>>

\* the rules a failure text matches
RulesMatching(text) ==
    {k \in 1..Len(RuleOrder) : \E p \in RuleOrder[k].patterns : includes(toLowerCase(text), p)}

\* the category a returned message stands for
CategoryOf(out) ==
    IF out = MsgIllegalChars THEN "illegal-credential-characters"
    ELSE IF out = MsgNetwork THEN "network-unreachable"
    ELSE IF out = MsgUnauthorized THEN "unauthorized"
    ELSE IF out = MsgPayment THEN "payment-required"
    ELSE IF out \in {MsgApiNotEnabled, MsgForbidden} THEN "forbidden"
    ELSE IF out = MsgNotFound THEN "not-found"
    ELSE IF out \in {MsgRateLimit, MsgQuota, MsgTooFast} THEN "rate-limited"
    ELSE IF out = MsgServer THEN "upstream-server-error"
    ELSE IF out = MsgBadRequest THEN "malformed-request"
    ELSE "unclassified"

\* C13: the translator classifies by the first matching rule in the fixed order; a text
\* matching two rules gets the category of the earlier one (401 with 404: unauthorized),
\* a text matching none is unclassified
C13_FirstMatchWins ==
    tr.called =>
        LET matching == RulesMatching(tr.error.message)
        IN  /\ matching # {} =>
                  \E k \in matching :
                      /\ \A j \in matching : k <= j
                      /\ CategoryOf(tr.out) = RuleOrder[k].category
            /\ matching = {} => CategoryOf(tr.out) = "unclassified"
            /\ (includes(tr.error.message, P_401) /\ includes(tr.error.message, P_404)
                /\ ~(1 \in matching) /\ ~(2 \in matching))
                   => tr.out = MsgUnauthorized

\* a text holding both 404 and 401, in that order, was translated
C13_Witness ==
    /\ tr.called
    /\ tr.error.message = <<"E", "r", "r", "o", "r", ":", " ", "4", "0", "4", " ", "/", " ", "4", "0", "1">>
    /\ Cardinality(RulesMatching(tr.error.message)) = 2

-----------------------------------------------------------------------------
(* The application around the two engines: split screen and manual relay (src/App.tsx) *)

HistRightModel == <<Msg(201, "model", TextHi, <<>>, FALSE, FALSE, NoMeta)>>
HistRightUserModel ==
    <<Msg(201, "user", TextYo, <<>>, FALSE, FALSE, NoMeta),
      Msg(202, "model", TextHi, <<>>, FALSE, FALSE, NoMeta)>>

Other(l) == IF l = "left" THEN "right" ELSE "left"

\* the model selected for a lane: currentModelId on the left, rightModelId on the right
ModelOf(l) == IF l = "left" THEN currentModelId ELSE app.rightModelId

NoRelay == [direction |-> "none"]

\* handleSendMessage(text, attachments, target, forceHidden) for one target lane: the
\* lane's engine is given the lane's current messages, model and sink; a rejected
\* sendMessage only raises a toast
handleSendMessage(text, attachments, target, forceHidden, origin) ==
    IF ModelOf(target) = ModelNone
    THEN sendMessageNoModel(target)
    ELSE sendMessage(target, text, attachments, messages[target], ModelOf(target),
                     forceHidden, origin)

\* a relay that looks for the most recent reply that is a non-errored model turn
RelaySource_SkipsBack(list) ==
    LET ok == {i \in 1..Len(list) : list[i].role = "model" /\ ~list[i].isError}
    IN  IF ok = {} THEN 0 ELSE CHOOSE i \in ok : \A j \in ok : j <= i

\* handleManualRelay, lines 645-646 and 652-653: the message relayed (0 when none is)
RelaySource(list) ==
    IF Len(list) > 0 /\ list[Len(list)].role = "model" /\ ~list[Len(list)].isError
    THEN Len(list)
    ELSE 0

\* handleManualRelay(direction); lastRelay notes what the call found and did
ManualRelay(direction) ==
    LET src == IF direction = "left_to_right" THEN "left" ELSE "right"
        dst == Other(src)
        loading == isLoading["left"] \/ isLoading["right"]
        k == RelaySource(messages[src])
        acts == ~loading /\ k # 0
        note == [direction |-> direction,
                 loading |-> loading,
                 busy |-> InFlight("left") \cup InFlight("right") # {},
                 reply |-> RelaySource_SkipsBack(messages[src]),
                 taken |-> IF acts THEN k ELSE 0,
                 gen |-> IF acts /\ ModelOf(dst) # ModelNone THEN Len(gens) + 1 ELSE 0]
    IN  /\ app' = [app EXCEPT !.lastRelay = note]
        /\ IF acts
           THEN handleSendMessage(messages[src][k].content, <<>>, dst, TRUE, "relay")
           ELSE UNCHANGED engineVars

\* the user sends the typed text to one lane
UserSend(l) == handleSendMessage(TextHi, <<>>, l, FALSE, "send")

RelayConfigs ==
    {[left |-> HistUserModel, right |-> HistEmpty,
      modelId |-> ModelGemini, rightModelId |-> ModelGemini, provider |-> "google"],
     [left |-> HistHiddenUserErroredModel, right |-> HistRightUserModel,
      modelId |-> ModelGemini, rightModelId |-> ModelGemini, provider |-> "openai"],
     [left |-> HistUser, right |-> HistRightModel,
      modelId |-> ModelDallE, rightModelId |-> ModelDallE, provider |-> "openai"],
     [left |-> HistModel, right |-> HistEmpty,
      modelId |-> ModelGemini, rightModelId |-> ModelNone, provider |-> "google"]}

InitRelay ==
    /\ IdleRetrieve /\ IdleHistory /\ IdleRetry /\ IdleTranslate /\ IdleSvc
    /\ abortControllerRef = [l \in Lanes |-> 0]
    /\ isLoading = [l \in Lanes |-> FALSE]
    /\ aborted = {}
    /\ gens = <<>>
    /\ nextId = 1
    /\ \E c \in RelayConfigs :
           /\ messages = [l \in Lanes |-> IF l = "left" THEN c.left ELSE c.right]
           /\ currentModelId = c.modelId
           /\ provider = c.provider
           /\ app = [mode |-> "split", rightModelId |-> c.rightModelId,
                     isAutoBattle |-> FALSE, timers |-> <<>>, battleSends |-> <<>>,
                     lastRelay |-> NoRelay]

relayFrame == <<configVars, retrieveVars, historyVars, rt, tr, svc>>

NextRelay ==
    \/ \E l \in Lanes : Len(gens) < MaxGens /\ UserSend(l) /\ UNCHANGED engineFrame
    \/ \E d \in {"left_to_right", "right_to_left"} :
           Len(gens) < MaxGens /\ ManualRelay(d) /\ UNCHANGED relayFrame
    \/ \E l \in Lanes : Stop(l) /\ UNCHANGED engineFrame
    \/ \E g \in Gens : GoogleChunk(g) /\ UNCHANGED engineFrame
    \/ \E g \in Gens : OpenAIRead(g) /\ UNCHANGED engineFrame
    \/ \E g \in Gens : OpenAIAborted(g) /\ UNCHANGED engineFrame
    \/ \E g \in Gens : StreamEnd(g) /\ UNCHANGED engineFrame
    \/ \E g \in Gens : SingleShot(g) /\ UNCHANGED engineFrame
    \/ \E g \in Gens : AdapterFails(g) /\ UNCHANGED engineFrame

SpecRelay == InitRelay /\ [][NextRelay]_vars

\* the same application, followed while fewer than MaxRelayGens sends were made
NextRelayOnce ==
    \/ \E l \in Lanes : Len(gens) < MaxRelayGens /\ UserSend(l) /\ UNCHANGED engineFrame
    \/ \E d \in {"left_to_right", "right_to_left"} :
           Len(gens) < MaxRelayGens /\ ManualRelay(d) /\ UNCHANGED relayFrame
    \/ \E l \in Lanes : Stop(l) /\ UNCHANGED engineFrame
    \/ \E g \in Gens : GoogleChunk(g) /\ UNCHANGED engineFrame
    \/ \E g \in Gens : OpenAIRead(g) /\ UNCHANGED engineFrame
    \/ \E g \in Gens : OpenAIAborted(g) /\ UNCHANGED engineFrame
    \/ \E g \in Gens : StreamEnd(g) /\ UNCHANGED engineFrame
    \/ \E g \in Gens : SingleShot(g) /\ UNCHANGED engineFrame
    \/ \E g \in Gens : AdapterFails(g) /\ UNCHANGED engineFrame

SpecRelayOnce == InitRelay /\ [][NextRelayOnce]_vars

-----------------------------------------------------------------------------
(* Properties of manual relay *)

\* a call of relay was made in this step
RelayCalled == app.lastRelay' # app.lastRelay

RelaySrc == IF app.lastRelay'.direction = "left_to_right" THEN "left" ELSE "right"

\* the step started a generation on lane dst whose user turn is hidden, without
\* attachments and carries the given text
RelayedInto(dst, text) ==
    /\ Len(gens') = Len(gens) + 1
    /\ LET g == gens'[Len(gens')]
           u == g.messagesWithBot[Len(g.messagesWithBot) - 1]
       IN  /\ g.lane = dst
           /\ u.role = "user" /\ u.content = text /\ u.isHidden /\ u.attachments = <<>>

\* C14: a relay called while either lane has a generation in flight (generating, or
\* cancelled and not yet unwound) starts no generation and changes no lane's messages
C14_RelayOnlyWhenIdle ==
    [][(RelayCalled /\ app.lastRelay'.busy) => (gens' = gens /\ messages' = messages)]_vars

-----------------------------------------------------------------------------
(* Auto-battle: the effect of App.tsx that relays the newer lane's reply *)

\* Message.timestamp (Date.now() at creation): ids are issued in creation order and the
\* clock is read as strictly increasing
timestamp(m) == m.id

LastOf(list) == list[Len(list)]

\* triggerBattleTurn, first branch: the left lane's last message is to go to the right
BattleLeftTurn ==
    /\ Len(messages["left"]) > 0
    /\ LastOf(messages["left"]).role = "model"
    /\ ~LastOf(messages["left"]).isError
    /\ \/ messages["right"] = <<>>
       \/ timestamp(LastOf(messages["right"])) < timestamp(LastOf(messages["left"]))

\* triggerBattleTurn, second branch
BattleRightTurn ==
    /\ Len(messages["right"]) > 0
    /\ LastOf(messages["right"]).role = "model"
    /\ ~LastOf(messages["right"]).isError
    /\ \/ messages["left"] = <<>>
       \/ timestamp(LastOf(messages["left"])) < timestamp(LastOf(messages["right"]))

\* the effect's guards (lines 678-681)
BattleEffectRuns ==
    /\ app.isAutoBattle
    /\ ~(isLoading["left"] \/ isLoading["right"])
    /\ currentModelId # ModelNone /\ app.rightModelId # ModelNone

\* the effect is evaluated after a render: when its guards pass and a lane's last reply is
\* newer than the other lane's last message, the cooldown timer is started for it
BattleEffect ==
    /\ BattleEffectRuns
    /\ Len(app.timers) < MaxTimers
    /\ IF BattleLeftTurn
       THEN app' = [app EXCEPT !.timers = Append(@,
                [content |-> LastOf(messages["left"]).content, target |-> "right",
                 sourceId |-> LastOf(messages["left"]).id])]
       ELSE IF BattleRightTurn
       THEN app' = [app EXCEPT !.timers = Append(@,
                [content |-> LastOf(messages["right"]).content, target |-> "left",
                 sourceId |-> LastOf(messages["right"]).id])]
       ELSE UNCHANGED app
    /\ UNCHANGED engineVars

\* a cooldown ends (lines 693-694, 702-703): the captured reply is sent to the other lane;
\* battleSends notes which reply went where
BattleTimer ==
    /\ app.timers # <<>>
    /\ LET t == Head(app.timers)
       IN  /\ app' = [app EXCEPT !.timers = Tail(@),
                                 !.battleSends = Append(@, [sourceId |-> t.sourceId,
                                                            target |-> t.target])]
           /\ handleSendMessage(t.content, <<>>, t.target, FALSE, "battle")

\* toggleAutoBattle
ToggleAutoBattle ==
    /\ app' = [app EXCEPT !.isAutoBattle = ~@]
    /\ UNCHANGED engineVars

\* handleStop(target): the lane is stopped and auto-battle is switched off
handleStop(l) ==
    /\ Stop(l)
    /\ app' = [app EXCEPT !.isAutoBattle = FALSE]

BattleConfigs ==
    {[left |-> HistUserModel, right |-> HistEmpty,
      modelId |-> ModelGemini, rightModelId |-> ModelGemini, provider |-> "google"],
     [left |-> HistUser, right |-> HistRightModel,
      modelId |-> ModelDallE, rightModelId |-> ModelDallE, provider |-> "openai"]}

InitBattle ==
    /\ IdleRetrieve /\ IdleHistory /\ IdleRetry /\ IdleTranslate /\ IdleSvc
    /\ abortControllerRef = [l \in Lanes |-> 0]
    /\ isLoading = [l \in Lanes |-> FALSE]
    /\ aborted = {}
    /\ gens = <<>>
    /\ nextId = 301
    /\ \E c \in BattleConfigs :
           /\ messages = [l \in Lanes |-> IF l = "left" THEN c.left ELSE c.right]
           /\ currentModelId = c.modelId
           /\ provider = c.provider
           /\ app = [mode |-> "split", rightModelId |-> c.rightModelId,
                     isAutoBattle |-> FALSE, timers |-> <<>>, battleSends |-> <<>>,
                     lastRelay |-> NoRelay]

NextBattle ==
    \/ ToggleAutoBattle /\ UNCHANGED relayFrame
    \/ BattleEffect /\ UNCHANGED relayFrame
    \/ Len(gens) < MaxGens /\ BattleTimer /\ UNCHANGED relayFrame
    \/ \E l \in Lanes : handleStop(l) /\ UNCHANGED relayFrame
    \/ \E g \in Gens : GoogleChunk(g) /\ UNCHANGED engineFrame
    \/ \E g \in Gens : StreamEnd(g) /\ UNCHANGED engineFrame
    \/ \E g \in Gens : SingleShot(g) /\ UNCHANGED engineFrame
    \/ \E g \in Gens : AdapterFails(g) /\ UNCHANGED engineFrame

SpecBattle == InitBattle /\ [][NextBattle]_vars

-----------------------------------------------------------------------------
(* Properties of auto-battle *)

\* C16: auto-battle never sends the same model reply into the other lane twice, however
\* often the effect is evaluated again, also while a cooldown is pending
C16_NoReplyRelayedTwice ==
    \A i, j \in 1..Len(app.battleSends) :
        (i # j) => app.battleSends[i] # app.battleSends[j]

-----------------------------------------------------------------------------
(* Properties of the adapter's increments and of overlapping generations *)

\* C17: a generation that completes successfully has invoked the increment callback at
\* least once, and the text of its last invocation is the whole accumulated answer
C17_SuccessHasFinalIncrement ==
    \A g \in Gens :
        (Succeeded(g) /\ g \notin aborted) =>
            /\ gens[g].incs >= 1
            /\ \A i \in Placeholder(g) : gens[g].lastSink[i].content = gens[g].accumulatedText

\* C18: a transient failure of the generation request (network, timeout, 429, 5xx) is
\* shown on the placeholder only after the request was tried DefaultMaxRetries times
C18_TransientFailureRetried ==
    \A g \in Gens :
        (Failed(g) /\ IsRetryable(gens[g].cause)) => gens[g].requests = DefaultMaxRetries

\* generation g gives a list to its sink in this step
SinkInvokedBy(g) == g \in Gens /\ gens'[g].sinks > gens[g].sinks

HasId(list, id) == WithId(list, id) # {}

\* C19: once a newer send of a lane has delivered its optimistic list, no older generation of
\* the lane gives the sink a list without the newer send's user message and placeholder
C19_NoStaleOverwrite ==
    [][\A g, n \in Gens :
          (g < n /\ gens[g].lane = gens[n].lane /\ SinkInvokedBy(g)) =>
              /\ HasId(gens'[g].lastSink, gens[n].botMsgId)
              /\ HasId(gens'[g].lastSink, gens[n].botMsgId - 1)]_vars

\* C20: while a generation with a non-cancelled token is in flight on a lane, the lane's
\* ref holds its controller and the lane's isLoading is true
C20_LiveGenerationHoldsSlot ==
    \A l \in Lanes : \A g \in LiveInFlight(l) :
        abortControllerRef[l] = g /\ isLoading[l]

-----------------------------------------------------------------------------
(* Properties of the cooldown of auto-battle *)

\* an auto-battle relay send is issued in this step
BattleSendIssued == app.battleSends' # app.battleSends

\* C21: an auto-battle relay send is issued only while auto-battle is enabled and both
\* lanes are idle; a turn whose cooldown saw auto-battle switched off, a stop, or a lane
\* starting to generate is dropped and supersedes no running generation
C21_BattleSendOnlyWhenEnabledAndIdle ==
    [][BattleSendIssued =>
          /\ app.isAutoBattle
          /\ InFlight("left") \cup InFlight("right") = {}
          /\ aborted' = aborted]_vars

-----------------------------------------------------------------------------
(* sendMessage, lines 148-153, statement by statement *)

\* a call of sendMessage that stands between line 149 and line 153
MidSend(g) == g \in Gens /\ gens[g].pc \in {"line150", "line151"}
NoneMidSend == \A g \in Gens : ~MidSend(g)

\* a send whose optimistic list lacks the placeholder
OptimisticList_NoPlaceholder(history, userMsg, botMsg) == Append(history, userMsg)

\* lines 109-141: newHistory = [...history, userMsg], messagesWithBot = [...newHistory, botMsg]
OptimisticList(history, userMsg, botMsg) == history \o <<userMsg, botMsg>>

\* lines 107-149: the optimistic list goes to the sink, the loading flag is raised and
\* `const prevController = abortControllerRef.current` is read
SendLine149(l) ==
    LET g == Len(gens) + 1
        userMsg == Msg(nextId, "user", TextHi, <<>>, FALSE, FALSE, NoMeta)
        botMsg == Msg(nextId + 1, "model", <<>>, <<>>, FALSE, FALSE, NoMeta)
        messagesWithBot == OptimisticList(messages[l], userMsg, botMsg)
    IN  /\ NoneMidSend
        /\ currentModelId # ModelNone
        /\ nextId' = nextId + 2
        /\ messages' = [messages EXCEPT ![l] = messagesWithBot]
        /\ isLoading' = [isLoading EXCEPT ![l] = TRUE]
        /\ gens' = Append(gens,
               [lane |-> l, origin |-> "send", path |-> AdapterPath(currentModelId, provider),
                messagesWithBot |-> messagesWithBot, botMsgId |-> botMsg.id,
                accumulatedText |-> <<>>, accumulatedMetadata |-> NoMeta,
                reads |-> 0, incs |-> 0, requests |-> 0,
                pc |-> "line150", cause |-> NoError,
                rethrown |-> FALSE, sinks |-> 1, lastSink |-> messagesWithBot,
                skipped |-> <<>>, prevController |-> abortControllerRef[l]])
        /\ UNCHANGED <<abortControllerRef, aborted>>

\* line 150: abortControllerRef.current = new AbortController()
SendLine150(g) ==
    /\ g \in Gens /\ gens[g].pc = "line150"
    /\ abortControllerRef' = [abortControllerRef EXCEPT ![gens[g].lane] = g]
    /\ gens' = [gens EXCEPT ![g].pc = "line151"]
    /\ UNCHANGED <<isLoading, aborted, messages, nextId>>

\* lines 151-153: if (prevController) prevController.abort(); then the adapter is called
SendLine151(g) ==
    /\ g \in Gens /\ gens[g].pc = "line151"
    /\ aborted' = SupersedePrevious(gens[g].prevController, aborted)
    /\ gens' = [gens EXCEPT ![g].pc = "awaiting", ![g].requests = AdapterRequests]
    /\ UNCHANGED <<abortControllerRef, isLoading, messages, nextId>>

\* the engine with sendMessage taken statement by statement; a call runs to its await
\* before any other handler or adapter event is served
NextSendSteps ==
    \/ \E l \in ActiveLanes : Len(gens) < MaxGens /\ SendLine149(l) /\ UNCHANGED engineFrame
    \/ \E g \in Gens : SendLine150(g) /\ UNCHANGED engineFrame
    \/ \E g \in Gens : SendLine151(g) /\ UNCHANGED engineFrame
    \/ \E l \in ActiveLanes : NoneMidSend /\ Stop(l) /\ UNCHANGED engineFrame
    \/ \E g \in Gens : NoneMidSend /\ GoogleChunk(g) /\ UNCHANGED engineFrame
    \/ \E g \in Gens : NoneMidSend /\ OpenAIRead(g) /\ UNCHANGED engineFrame
    \/ \E g \in Gens : NoneMidSend /\ OpenAIAborted(g) /\ UNCHANGED engineFrame
    \/ \E g \in Gens : NoneMidSend /\ StreamEnd(g) /\ UNCHANGED engineFrame
    \/ \E g \in Gens : NoneMidSend /\ SingleShot(g) /\ UNCHANGED engineFrame
    \/ \E g \in Gens : NoneMidSend /\ AdapterFails(g) /\ UNCHANGED engineFrame

SpecSendSteps == Init /\ [][NextSendSteps]_vars

\* C22: in send the lane's previous token is invalidated before the new token is created
\* and stored in the slot: once the new token is in the slot, the token it replaces is
\* already cancelled, so the lane never has two tokens that are both non-cancelled
C22_InvalidateBeforeReplace ==
    \A g \in Gens :
        (gens[g].pc = "line151" /\ gens[g].prevController # 0)
            => gens[g].prevController \in aborted

\* the generation a step of sendMessage has just started
Started(g) == g \in DOMAIN gens' /\ g \notin Gens

\* C23: the first sink invocation of every send carries the base history followed by
\* the new user message and a placeholder model message with empty text, and it
\* happens before the adapter is invoked and so before any increment of that send
C23_OptimisticSinkFirst ==
    [][\A g \in DOMAIN gens' :
           LET new == gens'[g]
               l == new.lane
               n == Len(messages[l])
           IN  /\ Started(g) =>
                      /\ new.sinks = 1 /\ new.requests = 0
                      /\ new.incs = 0 /\ new.reads = 0
                      /\ messages'[l] = new.lastSink
                      /\ Len(new.lastSink) = n + 2
                      /\ SubSeq(new.lastSink, 1, n) = messages[l]
                      /\ new.lastSink[n + 1].role = "user"
                      /\ new.lastSink[n + 1].content = TextHi
                      /\ new.lastSink[n + 2].role = "model"
                      /\ new.lastSink[n + 2].content = <<>>
                      /\ new.lastSink[n + 2].id = new.botMsgId
               /\ (g \in Gens /\ (new.requests > gens[g].requests \/ new.incs > gens[g].incs)) =>
                      gens[g].sinks >= 1]_vars

\* the optimistic list of a second send is on screen and its adapter is not yet invoked
C23_Witness ==
    \E g \in Gens :
        /\ g > 1 /\ MidSend(g)
        /\ gens[g].sinks = 1 /\ gens[g].requests = 0
        /\ messages[gens[g].lane] = gens[g].lastSink
        /\ Len(gens[g].lastSink) >= 4

\* the histories on which regenerate is to do nothing
NoOpCase(history) ==
    \/ history = <<>>
    \/ history[Len(history)].role # "model"
    \/ Len(history) < 2
    \/ history[Len(history) - 1].role # "user"

\* C24: if history is empty, its last message is not a model turn, or the message
\* before the last is not a user turn, regenerate does nothing: the sink is not invoked,
\* no token is created or cancelled and the generating flag is unchanged
C24_RegenerateNoOp ==
    [][\A l \in Lanes :
           (NoOpCase(messages[l]) /\ Regenerate(l)) =>
               UNCHANGED <<abortControllerRef, isLoading, aborted, gens, messages>>]_vars

\* regenerate can be called on a history that ends with two model turns
C24_Witness ==
    /\ Len(gens) < MaxGens
    /\ Len(messages["left"]) >= 2
    /\ messages["left"][Len(messages["left"])].role = "model"
    /\ messages["left"][Len(messages["left"]) - 1].role = "model"
    /\ NoOpCase(messages["left"])

-----------------------------------------------------------------------------
(* Ranking of retrieval: the fragments behind a result *)

\* lines 64-69: allChunks.sort(...) and allChunks.slice(0, 15)
RankedChunks(query, files) ==
    LET keywords == Keywords(query)
        sorted == SortByScore(AllChunks(files, keywords, 1), Len(keywords))
    IN  SubSeq(sorted, 1, IF Len(sorted) < TopChunks THEN Len(sorted) ELSE TopChunks)

\* lines 71-76: how many of topChunks the for loop appends before it breaks
RECURSIVE IncludedCount(_, _, _, _)
IncludedCount(topChunks, i, usedChars, maxChars) ==
    IF i > Len(topChunks) THEN 0
    ELSE LET entry == Entry(topChunks[i])
         IN  IF usedChars + Len(entry) > maxChars THEN 0
             ELSE 1 + IncludedCount(topChunks, i + 1, usedChars + Len(entry), maxChars)

\* the chunks whose entries are in contextBuffer
IncludedChunks(query, files, maxChars) ==
    LET topChunks == RankedChunks(query, files)
    IN  SubSeq(topChunks, 1, IncludedCount(topChunks, 1, 0, maxChars))

\* the entries of a list of chunks, one after the other
RECURSIVE Entries(_, _)
Entries(chunks, i) ==
    IF i > Len(chunks) THEN <<>> ELSE Entry(chunks[i]) \o Entries(chunks, i + 1)

\* line 78: the block returned for a list of included chunks
Block(chunks) ==
    IF chunks = <<>> THEN <<>> ELSE ContextHeader \o Entries(chunks, 1) \o NL \o NL

\* Inputs of ranking
RECURSIVE Times(_, _)
Times(s, n) == IF n = 0 THEN <<>> ELSE s \o Times(s, n - 1)

QueryRepeated == <<"a", "b", " ", "a", "b">>
LongWord == Repeat("q", OVERLAP + 2)
\* the longest word two neighbouring windows cannot both miss
EdgeWord == Repeat("w", OVERLAP + 1)
RankQueries == {QueryTwo, QueryRepeated, QueryRefund, LongWord, EdgeWord, QueryAbsent}

\* two windows: the first holds one keyword of QueryTwo, the second both
FileTwoWin ==
    [name |-> <<"m">>,
     content |-> <<"a", "b">> \o Repeat(".", 898) \o <<"a", "b", " ", "c", "d">> \o Repeat(".", 95)]
\* sixteen windows, each holding the keyword
FileMany == [name |-> <<"n">>, content |-> Times(<<"a", "b">> \o Repeat(".", 698), 16)]
\* the keyword lies across offset 800, the end of the first window
FileBoundary ==
    [name |-> <<"p">>, content |-> Repeat("x", 797) \o <<"r", "e", "f", "u", "n", "d">> \o Repeat("x", 97)]
\* a word of 102 characters at offsets 699 to 800: one more than a window can hold
\* from there, and begun before the next window starts
FileStraddle ==
    [name |-> <<"s">>, content |-> Repeat(".", 699) \o LongWord \o Repeat(".", 99)]
\* a word of 101 characters at offsets 699 to 799, the last of the first window
FileEdge ==
    [name |-> <<"e">>, content |-> Repeat(".", 699) \o EdgeWord \o Repeat(".", 100)]
RankFileSets ==
    {<<FileSmall>>, <<FileSmall, FileUpper>>, <<FileTwoWin, FileSmall>>, <<FileMany>>,
     <<FileBoundary>>, <<FileStraddle>>, <<FileEdge>>, <<FileLong>>}

RankMaxChars == {DefaultMaxChars, 1200, 400}

InitRanking ==
    /\ EngineIdle /\ IdleHistory /\ IdleRetry /\ IdleTranslate /\ IdleApp /\ IdleSvc
    /\ rq \in RankQueries
    /\ rfiles \in RankFileSets
    /\ rmax \in RankMaxChars
    /\ rout = <<>>
    /\ rcalled = FALSE

SpecRanking == InitRanking /\ [][NextRetrieve]_vars

-----------------------------------------------------------------------------
(* Properties of ranking *)

\* the fragments of the result of the call made
ResultFragments == IncludedChunks(rq, rfiles, rmax)
\* the call was made with files and with keywords, and its result is these fragments
Ranked == rcalled /\ rfiles # <<>> /\ Keywords(rq) # <<>>
ResultIsFragments == rout = Block(ResultFragments)

\* the number of distinct keywords of the query that occur in a window
DistinctScore(window, query) ==
    LET keywords == Keywords(query)
    IN  Cardinality({k \in {keywords[i] : i \in DOMAIN keywords} :
                        includes(toLowerCase(window), k)})

\* C25: the score retrieve assigns to a window is the number of distinct query keywords
\* that occur in the window as case-insensitive substrings (a keyword repeated in the
\* query counts once); windows with score zero never appear in the result
C25_ScoreCountsDistinctKeywords ==
    Ranked =>
        /\ ResultIsFragments
        /\ \A i \in DOMAIN ResultFragments :
               /\ ResultFragments[i].score = DistinctScore(ResultFragments[i].content, rq)
               /\ DistinctScore(ResultFragments[i].content, rq) > 0

\* the scoring windows of the call made, in encounter order: file order, then position
Encountered == AllChunks(rfiles, Keywords(rq), 1)

\* the place of the i-th window of enc in the ranking: after every window of higher
\* score and every earlier window of the same score
RankOf(enc, i) ==
    1 + Cardinality({j \in DOMAIN enc :
                        \/ enc[j].score > enc[i].score
                        \/ enc[j].score = enc[i].score /\ j < i})

\* the windows of enc by their place in the ranking
Ranking(enc) == [r \in DOMAIN enc |-> enc[CHOOSE i \in DOMAIN enc : RankOf(enc, i) = r]]

\* the accumulated size of the entries of the first n windows of a ranking
RECURSIVE RankedSize(_, _)
RankedSize(ranking, n) ==
    IF n = 0 THEN 0 ELSE Len(Entry(ranking[n])) + RankedSize(ranking, n - 1)

\* C26: the fragments of a result appear in non-increasing score order, fragments of
\* equal score in encounter order (file order, then window position), at most 15
\* fragments are included, and the included fragments are exactly the longest prefix
\* of that ranking whose accumulated size does not exceed maxChars
C26_RankedPrefixWithinBudget ==
    Ranked =>
        LET fragments == ResultFragments
            ranking == Ranking(Encountered)
            n == Len(fragments)
        IN  /\ rout = Block(fragments)
            /\ n <= 15 /\ n <= Len(ranking)
            /\ fragments = SubSeq(ranking, 1, n)
            /\ \A r \in 1..(n - 1) : fragments[r].score >= fragments[r + 1].score
            /\ RankedSize(ranking, n) <= rmax
            /\ (n < 15 /\ n < Len(ranking)) => RankedSize(ranking, n + 1) > rmax

\* a result of two fragments, the higher score first, with a third scoring window left
\* out because it would exceed maxChars
C26_Witness ==
    /\ Ranked
    /\ LET fragments == ResultFragments
           enc == Encountered
       IN  /\ rout = Block(fragments)
           /\ Len(fragments) = 2 /\ Len(enc) = 3
           /\ enc[1].score < enc[2].score
           /\ fragments = <<enc[2], enc[1]>>

\* fifteen fragments of sixteen scoring windows
C26_TopFifteen == Ranked /\ Len(Encountered) = 16 /\ Len(ResultFragments) = 15

\* file fi of the call holds keyword ki of the query, there are at most 15 scoring
\* windows and maxChars has room for the entries of them all
HoldsKeyword(fi, ki) ==
    LET ranking == Ranking(Encountered)
    IN  /\ includes(toLowerCase(rfiles[fi].content), Keywords(rq)[ki])
        /\ Len(ranking) <= 15
        /\ RankedSize(ranking, Len(ranking)) <= rmax

\* the result is a non-empty block with a fragment of file fi that contains keyword ki
\* and has score at least 1
ReturnsKeyword(fi, ki) ==
    LET fragments == ResultFragments
    IN  /\ rout # <<>>
        /\ rout = Block(fragments)
        /\ \E r \in DOMAIN fragments :
               /\ fragments[r].fileName = rfiles[fi].name
               /\ includes(toLowerCase(fragments[r].content), Keywords(rq)[ki])
               /\ fragments[r].score >= 1

\* C27: windows of width 800 advanced by 700 cover every file completely, so if a
\* file's text contains a query keyword anywhere (also near its end or across a window
\* boundary), then, with at most 15 scoring windows and a sufficient maxChars, retrieve
\* returns a non-empty block with a fragment containing the keyword with score at least 1
C27_KeywordAnywhereIsRetrieved ==
    rcalled =>
        \A fi \in DOMAIN rfiles : \A ki \in DOMAIN Keywords(rq) :
            HoldsKeyword(fi, ki) => ReturnsKeyword(fi, ki)

\* C27 (amended): the same for a keyword of at most 101 characters, one more than the
\* overlap of two neighbouring windows
C27_ShortKeywordIsRetrieved ==
    rcalled =>
        \A fi \in DOMAIN rfiles : \A ki \in DOMAIN Keywords(rq) :
            (Len(Keywords(rq)[ki]) <= OVERLAP + 1 /\ HoldsKeyword(fi, ki))
                => ReturnsKeyword(fi, ki)

\* the keyword that lies across the end of the first window is returned in the second
C27_Witness ==
    /\ rcalled /\ rq = QueryRefund /\ rfiles = <<FileBoundary>>
    /\ HoldsKeyword(1, 1) /\ ReturnsKeyword(1, 1)
    /\ ~includes(slice(FileBoundary.content, 0, CHUNK_SIZE), Keywords(rq)[1])
    /\ Len(ResultFragments) = 1
    /\ ResultFragments[1].content = slice(FileBoundary.content, CHUNK_SIZE - OVERLAP, 2 * CHUNK_SIZE)

-----------------------------------------------------------------------------
(* The streams of one generation, payload by payload and frame by frame *)

MaxStreamGens == 1
MaxStreamChunks == 2

\* the payloads of the native stream: a text delta and the grounding metadata of
\* candidates[0], either of which may be missing
StreamPayloads ==
    {[text |-> <<"a">>, meta |-> NoMeta],
     [text |-> <<"b">>, meta |-> "g1"],
     [text |-> <<>>, meta |-> "g2"]}

\* a line of the OpenAI/Anthropic-compatible stream: data says whether it starts with
\* 'data: ', body what the rest is (the [DONE] sentinel, text that is no JSON, or a
\* JSON object), raw the rest as text, and the other fields what the parsed object holds
Frame(data, body, raw, type, text, reasoning, content) ==
    [data |-> data, body |-> body, raw |-> raw, type |-> type, text |-> text,
     reasoning_content |-> reasoning, content |-> content]

FrameDelta == Frame(TRUE, "json", <<>>, "", <<>>, <<>>, <<"b">>)
FrameReasoning == Frame(TRUE, "json", <<>>, "", <<>>, <<"r">>, <<>>)
FrameRole == Frame(TRUE, "json", <<>>, "", <<>>, <<>>, <<>>)
FrameBlockDelta == Frame(TRUE, "json", <<>>, "content_block_delta", <<"c">>, <<>>, <<>>)
FrameDone == Frame(TRUE, "sentinel", <<"[", "D", "O", "N", "E", "]">>, "", <<>>, <<>>, <<>>)
FrameInvalid == Frame(TRUE, "invalid", <<"{", "\"", "c", "h", "o">>, "", <<>>, <<>>, <<>>)
FrameEvent == Frame(FALSE, "invalid", <<"e", "v", "e", "n", "t", ":", " ", "p", "i", "n", "g">>, "", <<>>, <<>>, <<>>)

\* what one reader.read() holds, split on '\n'
StreamReads ==
    {<<FrameDelta>>, <<FrameDone>>, <<FrameInvalid>>, <<FrameInvalid, FrameDelta>>,
     <<FrameDelta, FrameDone>>, <<FrameReasoning>>, <<FrameEvent, FrameBlockDelta>>,
     <<FrameRole>>}

ThinkOpen == <<"<", "t", "h", "i", "n", "k", ">">>
ThinkClose == <<"<", "/", "t", "h", "i", "n", "k", ">">>

\* an adapter that takes the text of a sentinel or of a frame that is no JSON as content
FrameContent_SkipsNothing(line, prov) ==
    IF ~line.data THEN <<>>
    ELSE IF line.body # "json" THEN line.raw
    ELSE IF prov = "anthropic"
         THEN (IF line.type = "content_block_delta" THEN line.text ELSE <<>>)
    ELSE IF line.reasoning_content # <<>>
         THEN ThinkOpen \o line.reasoning_content \o ThinkClose
    ELSE line.content

\* lines 787-805: the contentChunk one line yields; empty when the line is not a data
\* line, is the sentinel (continue), is no JSON (JSON.parse throws into the empty catch)
\* or holds no text for the provider
FrameContent(line, prov) ==
    IF ~line.data THEN <<>>
    ELSE IF line.body = "sentinel" THEN <<>>
    ELSE IF line.body # "json" THEN <<>>
    ELSE IF prov = "anthropic"
         THEN (IF line.type = "content_block_delta" THEN line.text ELSE <<>>)
    ELSE IF line.reasoning_content # <<>>
         THEN ThinkOpen \o line.reasoning_content \o ThinkClose
    ELSE line.content

\* a data line that is the sentinel or no JSON
SkippedFrame(line) == line.data /\ line.body \in {"sentinel", "invalid"}

\* lines 786-810: for (const line of lines) { ... }, from line i on, on generation
\* record gr; a skipped frame is noted with the length of the text accumulated so far
RECURSIVE ProcessLines(_, _, _, _)
ProcessLines(gr, lines, i, prov) ==
    IF i > Len(lines) THEN gr
    ELSE LET contentChunk == FrameContent(lines[i], prov)
             text == Accumulate(gr.accumulatedText, contentChunk)
             noted == IF SkippedFrame(lines[i])
                      THEN [gr EXCEPT !.skipped =
                               Append(@, [body |-> lines[i].body,
                                          at |-> Len(gr.accumulatedText)])]
                      ELSE gr
         IN  ProcessLines(IF contentChunk # <<>>
                          THEN [AfterIncrement(noted, text, NoMeta) EXCEPT
                                    !.accumulatedText = text]
                          ELSE noted,
                          lines, i + 1, prov)

\* lines 781-811: one pass of the while loop, on a read that holds these lines
ReadLines(g, lines) ==
    LET gr == [ProcessLines(gens[g], lines, 1, provider) EXCEPT !.reads = @ + 1]
    IN  /\ gens' = [gens EXCEPT ![g] = gr]
        /\ messages' = [messages EXCEPT ![gr.lane] =
               IF gr.incs # gens[g].incs THEN gr.lastSink ELSE @]
        /\ UNCHANGED <<abortControllerRef, isLoading, aborted, nextId>>

\* the next read of the response body arrives; none does once the signal is aborted
OpenAILines(g) ==
    /\ Awaiting(g) /\ gens[g].path = "openai" /\ TotalReads < MaxStreamChunks
    /\ g \notin aborted
    /\ \E lines \in StreamReads : ReadLines(g, lines)

\* the next payload of the native stream arrives
GoogleStreamChunk(g) ==
    /\ Awaiting(g) /\ gens[g].path = "google" /\ TotalReads < MaxStreamChunks
    /\ \E chunk \in StreamPayloads : GooglePayload(g, chunk)

StreamConfigs ==
    {[history |-> HistEmpty, modelId |-> ModelGemini, provider |-> "google"],
     [history |-> HistUserModel, modelId |-> ModelGemini, provider |-> "openai"],
     [history |-> HistEmpty, modelId |-> ModelGemini, provider |-> "anthropic"]}

InitStream ==
    /\ abortControllerRef = [l \in Lanes |-> 0]
    /\ isLoading = [l \in Lanes |-> FALSE]
    /\ aborted = {}
    /\ gens = <<>>
    /\ nextId = 1
    /\ \E c \in StreamConfigs :
           /\ messages = [l \in Lanes |-> IF l = "left" THEN c.history ELSE <<>>]
           /\ currentModelId = c.modelId
           /\ provider = c.provider
    /\ IdleRetrieve /\ IdleHistory /\ IdleRetry /\ IdleTranslate /\ IdleApp /\ IdleSvc

NextStream ==
    \/ \E l \in ActiveLanes : Len(gens) < MaxStreamGens /\ Send(l) /\ UNCHANGED engineFrame
    \/ \E l \in ActiveLanes : Stop(l) /\ UNCHANGED engineFrame
    \/ \E g \in Gens : GoogleStreamChunk(g) /\ UNCHANGED engineFrame
    \/ \E g \in Gens : OpenAILines(g) /\ UNCHANGED engineFrame
    \/ \E g \in Gens : OpenAIAborted(g) /\ UNCHANGED engineFrame
    \/ \E g \in Gens : StreamEnd(g) /\ UNCHANGED engineFrame
    \/ \E g \in Gens : AdapterFails(g) /\ UNCHANGED engineFrame

SpecStream == InitStream /\ [][NextStream]_vars

-----------------------------------------------------------------------------
(* Properties of the streams *)

\* the text and the metadata of generation g's placeholder in a list given to the sink
ShownText(list, g) == list[CHOOSE i \in WithId(list, gens[g].botMsgId) : TRUE].content
ShownMeta(list, g) ==
    list[CHOOSE i \in WithId(list, gens[g].botMsgId) : TRUE].groundingMetadata

IsPrefix(s, t) == Len(s) <= Len(t) /\ SubSeq(t, 1, Len(s)) = s

\* C28: within one generation, sink updates are applied in the order the adapter
\* delivers increments, and the text of each increment has the text of the previous
\* increment as a prefix: the accumulated text never shrinks and is never reordered
C28_IncrementsGrowInOrder ==
    [][\A g \in Gens :
           gens'[g].incs > gens[g].incs =>
               /\ IsPrefix(ShownText(gens[g].lastSink, g), ShownText(gens'[g].lastSink, g))
               /\ ShownText(gens'[g].lastSink, g) = gens'[g].accumulatedText
               /\ IsPrefix(gens[g].accumulatedText, gens'[g].accumulatedText)
               /\ messages'[gens[g].lane] = gens'[g].lastSink]_vars

\* two increments of one generation have been applied, the second extending the first
C28_Witness ==
    \E g \in Gens :
        /\ gens[g].incs = 2 /\ gens[g].accumulatedText = <<"a", "b">>
        /\ ShownText(messages[gens[g].lane], g) = gens[g].accumulatedText

\* C29: across a native-family generation each payload triggers exactly one increment,
\* the metadata carried by each sink state is the most recently seen metadata object
\* (last-seen-wins), and once a non-empty metadata has appeared in a sink state no
\* later increment of that generation produces a sink state with empty metadata
C29_NativeMetadataLastSeenWins ==
    [][\A g \in Gens :
           gens[g].path = "google" =>
               LET before == ShownMeta(gens[g].lastSink, g)
                   after == ShownMeta(gens'[g].lastSink, g)
               IN  /\ gens'[g].reads # gens[g].reads =>
                          /\ gens'[g].reads = gens[g].reads + 1
                          /\ gens'[g].incs = gens[g].incs + 1
                          /\ gens'[g].sinks = gens[g].sinks + 1
                   /\ gens'[g].incs # gens[g].incs =>
                          /\ gens'[g].reads = gens[g].reads + 1
                          /\ before # NoMeta => after # NoMeta
                          /\ \A chunk \in StreamPayloads :
                                 GooglePayload(g, chunk) =>
                                     after = IF chunk.meta # NoMeta THEN chunk.meta
                                             ELSE before]_vars

\* a payload without metadata has followed one with metadata, which the sink still shows
C29_Witness ==
    \E g \in Gens :
        /\ gens[g].path = "google" /\ gens[g].incs = 2
        /\ gens[g].accumulatedText = <<"b", "a">>
        /\ ShownMeta(messages[gens[g].lane], g) = "g1"

\* the metadata of a later payload has replaced that of an earlier one
C29_LastSeenReplaces ==
    \E g \in Gens :
        /\ gens[g].path = "google" /\ gens[g].incs = 2
        /\ gens[g].accumulatedText = <<"b">>
        /\ ShownMeta(messages[gens[g].lane], g) = "g2"

\* the lines of a read without its sentinel frames and its frames that are no JSON
WithoutSkipped(lines) == SelectSeq(lines, LAMBDA line : ~SkippedFrame(line))

\* a read holds a frame with content for the provider after a skipped frame
ContentAfterSkipped(lines, prov) ==
    \E i, j \in DOMAIN lines :
        i < j /\ SkippedFrame(lines[i]) /\ FrameContent(lines[j], prov) # <<>>

\* C30: in the OpenAI/Anthropic-compatible stream a frame whose payload is the [DONE]
\* sentinel and a frame whose payload is not valid JSON are both skipped without ending
\* or failing the generation: the accumulated text and the number of increments are
\* the same as if those frames were absent, and later well-formed frames are processed
C30_SentinelAndInvalidFramesSkipped ==
    [][\A g \in Gens : \A lines \in StreamReads :
           ReadLines(g, lines) =>
               LET absent == ProcessLines(gens[g], WithoutSkipped(lines), 1, provider)
               IN  /\ gens'[g].accumulatedText = absent.accumulatedText
                   /\ gens'[g].incs = absent.incs
                   /\ gens'[g].sinks = absent.sinks
                   /\ gens'[g].lastSink = absent.lastSink
                   /\ gens'[g].pc = "awaiting" /\ gens'[g].cause = NoError
                   /\ isLoading' = isLoading /\ abortControllerRef' = abortControllerRef
                   /\ ContentAfterSkipped(lines, provider) =>
                          /\ gens'[g].incs > gens[g].incs
                          /\ gens'[g].accumulatedText # gens[g].accumulatedText]_vars

\* a frame that is no JSON and a sentinel were skipped before any text, a frame after
\* them gave the text, and the generation is still running
C30_Witness ==
    \E g \in Gens :
        /\ gens[g].path = "openai" /\ gens[g].pc = "awaiting"
        /\ \E i, j \in DOMAIN gens[g].skipped :
               /\ gens[g].skipped[i] = [body |-> "invalid", at |-> 0]
               /\ gens[g].skipped[j] = [body |-> "sentinel", at |-> 0]
        /\ gens[g].accumulatedText = <<"b">> /\ gens[g].incs = 1
        /\ ShownText(messages[gens[g].lane], g) = <<"b">>

-----------------------------------------------------------------------------
(* The translator and the statuses retry treats as transient *)

\* the HTTP statuses among the patterns of retry that stand for a failing upstream server
TransientUpstreamStatuses == {P_500, P_502, P_503, P_504}

\* the rules that come before the upstream-server-error rule
EarlierThanServerRule == {k \in 1..Len(RuleOrder) : RuleOrder[k].category # "upstream-server-error"
                                                      /\ RuleOrder[k].category # "malformed-request"}

\* C31: every failure text that carries one of the HTTP statuses the retry wrapper
\* treats as a transient upstream failure (500, 502, 503, 504) and matches no earlier
\* translate rule is classified as upstream-server-error, never as unclassified
C31_TransientStatusIsServerError ==
    (/\ tr.called
     /\ \E p \in TransientUpstreamStatuses : includes(toLowerCase(tr.error.message), p)
     /\ RulesMatching(tr.error.message) \cap EarlierThanServerRule = {})
        => CategoryOf(tr.out) = "upstream-server-error"

-----------------------------------------------------------------------------
(* The two engines side by side: leftEngine and rightEngine (src/App.tsx) *)

MaxLaneGens == 2

\* both lanes use the same model, so regenerate(messages, modelId, ...) of either lane
\* is Regenerate with the selected model; the left lane starts with a turn to regenerate
LaneConfigs ==
    {[left |-> HistUserModel, right |-> HistEmpty,
      modelId |-> ModelGemini, rightModelId |-> ModelGemini, provider |-> "google"]}

InitLanes ==
    /\ IdleRetrieve /\ IdleHistory /\ IdleRetry /\ IdleTranslate /\ IdleSvc
    /\ abortControllerRef = [l \in Lanes |-> 0]
    /\ isLoading = [l \in Lanes |-> FALSE]
    /\ aborted = {}
    /\ gens = <<>>
    /\ nextId = 1
    /\ \E c \in LaneConfigs :
           /\ messages = [l \in Lanes |-> IF l = "left" THEN c.left ELSE c.right]
           /\ currentModelId = c.modelId
           /\ provider = c.provider
           /\ app = [mode |-> "split", rightModelId |-> c.rightModelId,
                     isAutoBattle |-> FALSE, timers |-> <<>>, battleSends |-> <<>>,
                     lastRelay |-> NoRelay]

NextLanes ==
    \/ \E l \in Lanes : Len(gens) < MaxLaneGens /\ UserSend(l) /\ UNCHANGED engineFrame
    \/ \E l \in Lanes : Len(gens) < MaxLaneGens /\ Regenerate(l) /\ UNCHANGED engineFrame
    \/ \E l \in Lanes : Stop(l) /\ UNCHANGED engineFrame
    \/ \E g \in Gens : GoogleChunk(g) /\ UNCHANGED engineFrame
    \/ \E g \in Gens : StreamEnd(g) /\ UNCHANGED engineFrame
    \/ \E g \in Gens : AdapterFails(g) /\ UNCHANGED engineFrame

SpecLanes == InitLanes /\ [][NextLanes]_vars

\* a send, a regenerate, a stop, or a step of one of its generations happens on lane l
ActsOn(l) ==
    \/ UserSend(l) \/ Regenerate(l) \/ Stop(l)
    \/ \E g \in Gens :
           /\ gens[g].lane = l
           /\ (GoogleChunk(g) \/ StreamEnd(g) \/ AdapterFails(g))

\* C32: the two lanes are independent: send, stop, regenerate and generation completion
\* on one lane never change the other lane's token slot, generating flag or message
\* list (nor cancel a token of the other lane), and both lanes may have a non-cancelled
\* generation in flight at the same time
C32_LanesIndependent ==
    [][\A l \in Lanes :
           ActsOn(l) =>
               /\ abortControllerRef'[Other(l)] = abortControllerRef[Other(l)]
               /\ isLoading'[Other(l)] = isLoading[Other(l)]
               /\ messages'[Other(l)] = messages[Other(l)]
               /\ \A g \in aborted' \ aborted : gens[g].lane = l]_vars

\* both lanes have a non-cancelled generation in flight
C32_Witness ==
    /\ LiveInFlight("left") # {} /\ LiveInFlight("right") # {}
    /\ isLoading["left"] /\ isLoading["right"]
    /\ abortControllerRef["left"] # 0 /\ abortControllerRef["right"] # 0
    /\ abortControllerRef["left"] # abortControllerRef["right"]

-----------------------------------------------------------------------------
(* getAvailableModels and the balance probe (geminiService.ts, lines 98-120 *)
(* and 550-571)                                                             *)

ModelGpt4o == <<"g", "p", "t", "-", "4", "o">>
ModelQwenMax == <<"q", "w", "e", "n", "-", "m", "a", "x">>
ModelLocal == <<"m", "y", "-", "m", "o", "d", "e", "l">>

\* isOpenAIModelAvailable / isAlibabaModelAvailable: the id includes one of the listed names
OpenAIAvailable == {<<"g", "p", "t", "-", "3", ".", "5", "-", "t", "u", "r", "b", "o">>, <<"g", "p", "t", "-", "4">>, <<"g", "p", "t", "-", "4", "-", "t", "u", "r", "b", "o">>, <<"g", "p", "t", "-", "4", "o">>, <<"g", "p", "t", "-", "4", "o", "-", "m", "i", "n", "i">>}
AlibabaAvailable == {<<"q", "w", "e", "n", "-", "t", "u", "r", "b", "o">>, <<"q", "w", "e", "n", "-", "p", "l", "u", "s">>, <<"q", "w", "e", "n", "-", "m", "a", "x">>, <<"q", "w", "e", "n", "-", "m", "a", "x", "-", "l", "o", "n", "g", "c", "o", "n", "t", "e", "x", "t">>,
                     <<"q", "w", "e", "n", "-", "1", ".", "5", "-", "t", "u", "r", "b", "o">>, <<"q", "w", "e", "n", "-", "1", ".", "5", "-", "p", "l", "u", "s">>, <<"q", "w", "e", "n", "-", "1", ".", "5", "-", "m", "a", "x">>, <<"q", "w", "e", "n", "-", "1", ".", "5", "-", "m", "a", "x", "-", "l", "o", "n", "g", "c", "o", "n", "t", "e", "x", "t">>}

\* the switch of filterAndMarkAvailableModels; a custom provider ends in the default
\* branch of isCustomModelAvailable, which accepts every id
isAvailable(id, prov) ==
    CASE prov = "openai" -> \E name \in OpenAIAvailable : includes(id, name)
      [] prov = "alibaba" -> \E name \in AlibabaAvailable : includes(id, name)
      [] OTHER -> TRUE

filterAndMarkAvailableModels(models, prov) ==
    SelectSeq(models, LAMBDA id : isAvailable(id, prov))

\* the platform label of fetchGenericModels
PlatformOf(prov) ==
    CASE prov = "openai" -> "OpenAI"
      [] prov = "custom" -> "OneAPI"
      [] OTHER -> "ALIBABA"

\* what one endpoint of the probe does: fetch rejects, the status is not OK, res.json()
\* rejects, or the body is parsed and holds a balance, a quota or neither
EndpointFailures == {[kind |-> "unreachable"], [kind |-> "not-ok"], [kind |-> "unparsable"]}
EndpointBodies ==
    {[kind |-> "body", fields |-> {}, balance |-> 0, quota |-> 0],
     [kind |-> "body", fields |-> {"balance"}, balance |-> 3, quota |-> 0],
     [kind |-> "body", fields |-> {"quota"}, balance |-> 0, quota |-> 7],
     [kind |-> "body", fields |-> {"balance", "quota"}, balance |-> 0, quota |-> 7]}
EndpointOutcomes == EndpointFailures \cup EndpointBodies

NoBalance == [label |-> "undefined", amount |-> 0]

\* the body of the for loop at endpoint k; everything that throws is inside the try
ProbeEndpoint_Rethrows(o) ==
    IF o.kind # "body" THEN [label |-> "throws", amount |-> 0]
    ELSE IF "balance" \in o.fields THEN [label |-> "yen", amount |-> o.balance]
    ELSE IF "quota" \in o.fields THEN [label |-> "Quota", amount |-> o.quota]
    ELSE NoBalance

ProbeEndpoint(o) ==
    IF o.kind # "body" THEN NoBalance
    ELSE IF "balance" \in o.fields THEN [label |-> "yen", amount |-> o.balance]
    ELSE IF "quota" \in o.fields THEN [label |-> "Quota", amount |-> o.quota]
    ELSE NoBalance

\* fetchOneAPIBalance: the early return, then the endpoints in order; the function given
\* to retry never rejects, so retry returns what its first invocation returns
RECURSIVE ProbeFrom(_, _)
ProbeFrom(probes, k) ==
    IF k > Len(probes) THEN NoBalance
    ELSE LET b == ProbeEndpoint(probes[k])
         IN  IF b # NoBalance THEN b ELSE ProbeFrom(probes, k + 1)

fetchOneAPIBalance(prov, hasBaseUrl, probes) ==
    IF ~hasBaseUrl \/ prov \in {"google", "anthropic", "alibaba"} THEN NoBalance
    ELSE ProbeFrom(probes, 1)

\* getAvailableModels for a provider other than google
getAvailableModels(prov, hasKey, hasBaseUrl, generic, probes) ==
    IF ~hasKey THEN [kind |-> "ok", models |-> <<>>, platform |-> "Unknown", balance |-> NoBalance]
    ELSE IF generic.kind = "fails" THEN [kind |-> "throws", models |-> <<>>, platform |-> "Unknown", balance |-> NoBalance]
    ELSE LET balance == fetchOneAPIBalance(prov, hasBaseUrl, probes)
         IN  IF balance.label = "throws"
             THEN [kind |-> "throws", models |-> <<>>, platform |-> "Unknown", balance |-> NoBalance]
             ELSE [kind |-> "ok",
                   models |-> filterAndMarkAvailableModels(generic.models, prov),
                   platform |-> generic.platform,
                   balance |-> balance]

ModelProviders == {"openai", "custom", "alibaba"}
FetchedLists == {<<>>, <<ModelGpt4o>>, <<ModelGpt4o, ModelLocal, ModelQwenMax>>}
\* fetchGenericModels: it rejects, or returns the models in id order with the label
GenericOutcomes(prov) ==
    {[kind |-> "fails", models |-> <<>>, platform |-> "Unknown"]}
        \cup {[kind |-> "ok", models |-> ms,
               platform |-> IF ms = <<>> THEN "Unknown" ELSE PlatformOf(prov)] : ms \in FetchedLists}

InitModels ==
    /\ abortControllerRef = [l \in Lanes |-> 0]
    /\ isLoading = [l \in Lanes |-> FALSE]
    /\ aborted = {}
    /\ gens = <<>>
    /\ messages = [l \in Lanes |-> <<>>]
    /\ nextId = 1
    /\ currentModelId = ModelNone
    /\ provider \in ModelProviders
    /\ IdleRetrieve /\ IdleHistory /\ IdleRetry /\ IdleTranslate /\ IdleApp
    /\ \E hasKey \in BOOLEAN, hasBaseUrl \in BOOLEAN, generic \in GenericOutcomes(provider),
          p1 \in EndpointOutcomes, p2 \in EndpointOutcomes :
           svc = [op |-> "listModels", pc |-> "start", apiKey |-> hasKey, baseUrl |-> hasBaseUrl,
                  generic |-> generic, probes |-> <<p1, p2>>,
                  result |-> [kind |-> "ok", models |-> <<>>, platform |-> "Unknown", balance |-> NoBalance]]

\* one call of getAvailableModels()
ListModels ==
    /\ svc.op = "listModels" /\ svc.pc = "start"
    /\ svc' = [svc EXCEPT !.pc = "done",
                          !.result = getAvailableModels(provider, svc.apiKey, svc.baseUrl,
                                                        svc.generic, svc.probes)]

NextModels == ListModels /\ UNCHANGED <<engineVars, configVars, retrieveVars, historyVars, rt, tr, app>>

SpecModels == InitModels /\ [][NextModels]_vars

ProbeFailed(o) == o \in EndpointFailures

\* C33: a failing balance probe never makes listModels fail and never changes the models
\* or the platform label it returns: the call fails exactly when the model listing itself
\* failed, the models are the filtered listing and the label is the listing's label
\* whatever the endpoints of the probe did, and when every endpoint failed the result
\* carries no balance.
C33_ProbeFailureSwallowed ==
    (svc.op = "listModels" /\ svc.pc = "done" /\ svc.apiKey) =>
        /\ (svc.result.kind = "throws") = (svc.generic.kind = "fails")
        /\ svc.generic.kind = "ok" =>
              /\ svc.result.models = filterAndMarkAvailableModels(svc.generic.models, provider)
              /\ svc.result.platform = svc.generic.platform
        /\ (\A k \in 1..Len(svc.probes) : ProbeFailed(svc.probes[k])) =>
              svc.result.balance = NoBalance

\* the probe ran, both of its endpoints failed in different ways, and the models came back
C33_Witness ==
    /\ svc.op = "listModels" /\ svc.pc = "done" /\ svc.apiKey /\ svc.baseUrl
    /\ provider = "custom"
    /\ svc.probes = <<[kind |-> "unreachable"], [kind |-> "unparsable"]>>
    /\ svc.result.kind = "ok"
    /\ Len(svc.result.models) = 3
    /\ svc.result.balance = NoBalance

-----------------------------------------------------------------------------
(* Termination of a send: the engine under the assumption that every awaited *)
(* adapter call settles                                                      *)

\* the awaited call of generation g settles: the stream ends, the single-shot call
\* resolves, the operation rejects, or the aborted signal rejects the fetch or read
Completes(g) ==
    \/ StreamEnd(g) /\ UNCHANGED engineFrame
    \/ SingleShot(g) /\ UNCHANGED engineFrame
    \/ OpenAIAborted(g) /\ UNCHANGED engineFrame
    \/ AdapterFails(g) /\ UNCHANGED engineFrame

\* sends, regenerates and stops of the lane, the payloads of the native stream (where a
\* cancelled signal is observed, line 670) and the settling of the awaited calls
NextLive ==
    \/ \E l \in ActiveLanes : Len(gens) < MaxGens /\ Send(l) /\ UNCHANGED engineFrame
    \/ \E l \in ActiveLanes : Len(gens) < MaxGens /\ Regenerate(l) /\ UNCHANGED engineFrame
    \/ \E l \in ActiveLanes : Stop(l) /\ UNCHANGED engineFrame
    \/ \E g \in Gens : GoogleChunk(g) /\ UNCHANGED engineFrame
    \/ \E g \in Gens : Completes(g)

\* no awaited adapter call is left pending for ever
SpecLive == Init /\ [][NextLive]_vars /\ \A g \in 1..MaxGens : WF_vars(Completes(g))

LaneIdle(l) == abortControllerRef[l] = 0 /\ ~isLoading[l] /\ InFlight(l) = {}

\* C34: every send eventually finishes, and its lane is then idle again: the ref holds
\* no controller, isLoading is false and no generation of the lane is awaiting its
\* adapter, whatever sends and stops were interleaved with it.
C34_SendFinishesLaneIdle ==
    \A g \in 1..MaxGens :
        Awaiting(g) ~> (g \in Gens /\ gens[g].pc = "done" /\ LaneIdle(gens[g].lane))

\* two sends of one lane were in flight together, the first was superseded, both have
\* settled and the lane is idle
C34_Witness ==
    /\ Len(gens) = 2
    /\ gens[1].lane = gens[2].lane
    /\ 1 \in aborted
    /\ gens[1].pc = "done" /\ gens[2].pc = "done"
    /\ LaneIdle(gens[1].lane)

-----------------------------------------------------------------------------
(* The outbound request of a send: sendMessage (useChatEngine.ts, lines 109-162), *)
(* getPrunedHistory (geminiService.ts, lines 573-576) and the request building of *)
(* the two adapters (lines 624-656 and 703-742)                                    *)

DefaultHistoryLimit == 20
HistoryLimits == {0, 1, 2, DefaultHistoryLimit}

\* Array.prototype.slice(-n) for n >= 0: -0 is 0, so slice(-0) is the whole array
sliceLast(list, n) ==
    IF n = 0 \/ n >= Len(list) THEN list ELSE SubSeq(list, Len(list) - n + 1, Len(list))

\* getPrunedHistory(history, maxContext)
getPrunedHistory(history, maxContext) ==
    LET validHistory == SelectSeq(history, LAMBDA m : ~m.isError /\ m.role # "system")
    IN  sliceLast(validHistory, maxContext)

ModelO1 == <<"o", "1", "-", "m", "i", "n", "i">>
supportsVision(modelId) ==
    \/ includes(modelId, <<"v", "i", "s", "i", "o", "n">>) \/ includes(modelId, <<"4", "o">>) \/ includes(modelId, <<"c", "l", "a", "u", "d", "e">>)
    \/ includes(modelId, <<"g", "e", "m", "i", "n", "i">>) \/ includes(modelId, <<"l", "l", "a", "v", "a">>)

\* processContent of streamOpenAICompatibleMessage (lines 713-734); an attachment stands
\* for its data URL
processContent(text, atts, modelId) ==
    IF atts = <<>> THEN text
    ELSE LET textPart == [type |-> "text", text |-> IF text = <<>> THEN <<" ">> ELSE text]
             shown == SelectSeq(atts, LAMBDA att : supportsVision(modelId) /\ att.type = "image")
             contentParts == <<textPart>> \o
                 [j \in 1..Len(shown) |-> [type |-> "image_url", image_url |-> shown[j]]]
         IN  IF Len(contentParts) = 1 THEN contentParts[1].text ELSE contentParts

\* prunedHistory.forEach(...) of lines 736-740
RECURSIVE ApiHistory(_, _, _)
ApiHistory(pruned, i, modelId) ==
    IF i > Len(pruned) THEN <<>>
    ELSE LET m == pruned[i]
         IN  (IF m.content = <<>> /\ m.attachments = <<>> THEN <<>>
              ELSE <<[role |-> IF m.role = "user" THEN "user" ELSE "assistant",
                      content |-> processContent(m.content, m.attachments, modelId)]>>)
             \o ApiHistory(pruned, i + 1, modelId)

\* body.messages of streamOpenAICompatibleMessage
OpenAIMessages(modelId, currentInput, attachments, history, hasSystem, limit, prov) ==
    LET system == IF hasSystem /\ prov # "anthropic" /\ ~includes(modelId, <<"o", "1">>)
                  THEN <<[role |-> "system", content |-> <<"SYSTEM_INSTRUCTION">>]>> ELSE <<>>
        apiMessages == system
            \o ApiHistory(getPrunedHistory(history, limit), 1, modelId)
            \o <<[role |-> "user", content |-> processContent(currentInput, attachments, modelId)]>>
    IN  IF prov = "anthropic"
        THEN SelectSeq(apiMessages, LAMBDA m : m.role # "system") ELSE apiMessages

\* the parts of the current turn in streamGoogleMessage (lines 626-643); the inputs of
\* the model have a text, so the empty-message error is not raised
GoogleParts(currentInput, attachments) ==
    LET parts == (IF HasNonSpace(currentInput) THEN <<TextPart(currentInput)>> ELSE <<>>)
                 \o [j \in 1..Len(attachments) |-> InlinePart(attachments[j])]
    IN  IF parts = <<>> THEN <<TextPart(<<" ">>)>> ELSE parts

\* contents of the generateContentStream call (line 656)
GoogleContents(currentInput, attachments, history, limit) ==
    convertHistoryToGemini(getPrunedHistory(history, limit))
        \o <<[role |-> "user", parts |-> GoogleParts(currentInput, attachments)]>>

HistSystemUserModel ==
    <<Msg(101, "system", TextYo, <<>>, FALSE, FALSE, NoMeta),
      Msg(102, "user", TextYo, <<>>, FALSE, FALSE, NoMeta),
      Msg(103, "model", TextHi, <<>>, FALSE, FALSE, NoMeta)>>
HistErroredFirst ==
    <<Msg(101, "user", TextYo, <<>>, FALSE, FALSE, NoMeta),
      Msg(102, "model", MsgServer, <<>>, FALSE, TRUE, NoMeta),
      Msg(103, "model", TextYo, <<>>, FALSE, FALSE, NoMeta)>>
RequestHistories ==
    {HistEmpty, HistUserModel, HistHiddenUserErroredModel, HistModel, HistUser,
     HistModelModel, HistSystemUserModel, HistErroredFirst}
RequestProviders == {"google", "openai", "anthropic"}
RequestModels == {ModelGemini, ModelO1}

InitRequest ==
    /\ abortControllerRef = [l \in Lanes |-> 0]
    /\ isLoading = [l \in Lanes |-> FALSE]
    /\ aborted = {}
    /\ gens = <<>>
    /\ messages = [l \in Lanes |-> <<>>]
    /\ nextId = 1
    /\ currentModelId \in RequestModels
    /\ provider \in RequestProviders
    /\ IdleRetrieve /\ IdleHistory /\ IdleRetry /\ IdleTranslate /\ IdleApp
    /\ \E history \in RequestHistories, text \in {TextHi, TextYo},
          attachments \in {<<>>, <<AttImage>>}, limit \in HistoryLimits, hasSystem \in BOOLEAN :
           svc = [op |-> "request", pc |-> "start", history |-> history, text |-> text,
                  attachments |-> attachments, historyLimit |-> limit, hasSystem |-> hasSystem,
                  userMsgId |-> 0, handed |-> <<>>, pruned |-> <<>>, request |-> <<>>]

\* sendMessage builds the user message and the history it hands to the adapter
\* (lines 109-120 and 155-162); the adapter prunes that history and builds its request
BuildRequest ==
    /\ svc.op = "request" /\ svc.pc = "start"
    /\ LET userMsg == Msg(nextId, "user", svc.text, svc.attachments, FALSE, FALSE, NoMeta)
           newHistory == Append(svc.history, userMsg)
       IN  svc' = [svc EXCEPT
               !.pc = "done",
               !.userMsgId = userMsg.id,
               !.handed = newHistory,
               !.pruned = getPrunedHistory(newHistory, svc.historyLimit),
               !.request =
                   IF provider = "google"
                   THEN GoogleContents(svc.text, svc.attachments, newHistory, svc.historyLimit)
                   ELSE OpenAIMessages(currentModelId, svc.text, svc.attachments, newHistory,
                                       svc.hasSystem, svc.historyLimit, provider)]

NextRequest == BuildRequest /\ UNCHANGED <<engineVars, configVars, retrieveVars, historyVars, rt, tr, app>>

SpecRequest == InitRequest /\ [][NextRequest]_vars

\* the entry the adapter appends for the current turn
CurrentTurnEntry ==
    IF provider = "google"
    THEN [role |-> "user", parts |-> GoogleParts(svc.text, svc.attachments)]
    ELSE [role |-> "user", content |-> processContent(svc.text, svc.attachments, currentModelId)]

\* no earlier turn of the conversation is a user turn with the same text
BaseLacksCurrentTurn ==
    \A i \in 1..Len(svc.history) :
        ~(svc.history[i].role = "user" /\ svc.history[i].content = svc.text)

\* C35: the request built for a send holds the current user turn exactly once, and the
\* history handed to the adapter does not hold the new user message.
C35_CurrentTurnOnce ==
    (svc.op = "request" /\ svc.pc = "done" /\ BaseLacksCurrentTurn) =>
        /\ Cardinality({k \in 1..Len(svc.request) : svc.request[k] = CurrentTurnEntry}) = 1
        /\ WithId(svc.handed, svc.userMsgId) = {}

\* the request always ends with the current turn
C35_RequestEndsWithCurrentTurn ==
    (svc.op = "request" /\ svc.pc = "done") =>
        svc.request # <<>> /\ svc.request[Len(svc.request)] = CurrentTurnEntry

\* the messages of the handed history that are neither errored nor of the system role
ValidHanded == SelectSeq(svc.handed, LAMBDA m : ~m.isError /\ m.role # "system")

IsSuffix(s, t) == Len(s) <= Len(t) /\ s = SubSeq(t, Len(t) - Len(s) + 1, Len(t))

\* C36: the pruned history holds no errored and no system message, keeps the order of
\* the original, has at most historyLimit messages for every historyLimit >= 0, and
\* these are the most recent ones.
C36_PrunedHistoryWithinLimit ==
    (svc.op = "request" /\ svc.pc = "done") =>
        /\ \A i \in 1..Len(svc.pruned) :
               ~svc.pruned[i].isError /\ svc.pruned[i].role # "system"
        /\ IsSuffix(svc.pruned, ValidHanded)
        /\ Len(svc.pruned) <= svc.historyLimit
        /\ Len(svc.pruned) = svc.historyLimit \/ svc.pruned = ValidHanded

\* the same for the limits other than 0
C36_PrunedHistoryWithinPositiveLimit ==
    (svc.op = "request" /\ svc.pc = "done" /\ svc.historyLimit > 0) =>
        /\ \A i \in 1..Len(svc.pruned) :
               ~svc.pruned[i].isError /\ svc.pruned[i].role # "system"
        /\ IsSuffix(svc.pruned, ValidHanded)
        /\ Len(svc.pruned) <= svc.historyLimit
        /\ Len(svc.pruned) = svc.historyLimit \/ svc.pruned = ValidHanded

-----------------------------------------------------------------------------
(* The OpenAI-compatible stream at the level of the bytes of the response body: *)
(* streamOpenAICompatibleMessage, lines 776-811                                 *)

\* the reads one response body is delivered in
MaxNetReads == 2

DataPrefix == <<"d", "a", "t", "a", ":", " ">>
TextDeltaB == <<"{", "\"", "c", "h", "o", "i", "c", "e", "s", "\"", ":", "[", "{", "\"", "d", "e", "l", "t", "a", "\"", ":", "{", "\"", "c", "o", "n", "t", "e", "n", "t", "\"", ":", "\"", "b", "\"", "}", "}", "]", "}">>
TextReasoning == <<"{", "\"", "c", "h", "o", "i", "c", "e", "s", "\"", ":", "[", "{", "\"", "d", "e", "l", "t", "a", "\"", ":", "{", "\"", "r", "e", "a", "s", "o", "n", "i", "n", "g", "_", "c", "o", "n", "t", "e", "n", "t", "\"", ":", "\"", "r", "\"", "}", "}", "]", "}">>
TextDone == <<"[", "D", "O", "N", "E", "]">>

\* JSON.parse on the texts of the model: a text that is one of the payloads parses to
\* its object; every proper piece of a payload, and the empty text, makes it throw
Payload(dataStr) ==
    CASE dataStr = TextDeltaB -> FrameDelta
      [] dataStr = TextReasoning -> FrameReasoning
      [] dataStr = TextDone -> FrameDone
      [] OTHER -> Frame(TRUE, "invalid", dataStr, "", <<>>, <<>>, <<>>)

startsWith(s, prefix) == Len(s) >= Len(prefix) /\ SubSeq(s, 1, Len(prefix)) = prefix

\* String.prototype.trim
trim(s) ==
    LET kept == {i \in 1..Len(s) : s[i] \notin SpaceChars}
    IN  IF kept = {} THEN <<>>
        ELSE SubSeq(s, CHOOSE i \in kept : \A j \in kept : i <= j,
                       CHOOSE i \in kept : \A j \in kept : i >= j)

\* the index of the first '\n' of s at or after i, Len(s) + 1 when there is none
NextNewline(s, i) ==
    LET at == {j \in i..Len(s) : s[j] = "\n"}
    IN  IF at = {} THEN Len(s) + 1 ELSE CHOOSE j \in at : \A k \in at : j <= k

\* chunk.split('\n'), from character i on
RECURSIVE SplitLinesFrom(_, _)
SplitLinesFrom(s, i) ==
    LET e == NextNewline(s, i)
    IN  <<SubSeq(s, i, e - 1)>> \o (IF e > Len(s) THEN <<>> ELSE SplitLinesFrom(s, e + 1))

\* lines 787-789: the line as the loop body sees it
ParseLine(line) ==
    IF startsWith(line, DataPrefix)
    THEN Payload(trim(slice(line, 6, Len(line))))
    ELSE Frame(FALSE, "invalid", line, "", <<>>, <<>>, <<>>)

\* lines 786-810 on the lines of one decoded chunk, from line i on
RECURSIVE AccumulateLines(_, _, _, _)
AccumulateLines(accumulatedText, lines, i, prov) ==
    IF i > Len(lines) THEN accumulatedText
    ELSE AccumulateLines(Accumulate(accumulatedText, FrameContent(ParseLine(lines[i]), prov)),
                         lines, i + 1, prov)

\* lines 784-810: one pass of the while loop on the bytes of one read
ProcessChunk(accumulatedText, chunk, prov) ==
    AccumulateLines(accumulatedText, SplitLinesFrom(chunk, 1), 1, prov)

\* the body the backend sends for a sequence of frames: each is a data line and a blank line
RECURSIVE Serialise(_)
Serialise(frames) ==
    IF frames = <<>> THEN <<>>
    ELSE DataPrefix \o Head(frames) \o <<"\n", "\n">> \o Serialise(Tail(frames))

BackendStreams ==
    {<<TextDeltaB>>, <<TextDeltaB, TextDone>>, <<TextReasoning, TextDeltaB>>}

InitBytes ==
    /\ abortControllerRef = [l \in Lanes |-> 0]
    /\ isLoading = [l \in Lanes |-> FALSE]
    /\ aborted = {}
    /\ gens = <<>>
    /\ messages = [l \in Lanes |-> <<>>]
    /\ nextId = 1
    /\ currentModelId = ModelGemini
    /\ provider = "openai"
    /\ IdleRetrieve /\ IdleHistory /\ IdleRetry /\ IdleTranslate /\ IdleApp
    /\ \E frames \in BackendStreams :
           svc = [op |-> "stream", pc |-> "reading", frames |-> frames,
                  unread |-> Serialise(frames), reads |-> 0, accumulatedText |-> <<>>,
                  cutInLine |-> FALSE]

\* reader.read() resolves with the next n bytes of the body; the last read the model
\* allows takes what is left; cutInLine notes that some read ended inside a line
NetworkRead ==
    /\ svc.op = "stream" /\ svc.pc = "reading"
    /\ svc.unread # <<>> /\ svc.reads < MaxNetReads
    /\ \E n \in 1..Len(svc.unread) :
           /\ svc.reads + 1 = MaxNetReads => n = Len(svc.unread)
           /\ svc' = [svc EXCEPT
                  !.reads = @ + 1,
                  !.unread = SubSeq(@, n + 1, Len(@)),
                  !.cutInLine = @ \/ svc.unread[n] # "\n",
                  !.accumulatedText = ProcessChunk(@, SubSeq(svc.unread, 1, n), provider)]

\* reader.read() resolves with done: the decoder gives the empty string and the loop ends
NetworkDone ==
    /\ svc.op = "stream" /\ svc.pc = "reading"
    /\ svc.unread = <<>>
    /\ svc' = [svc EXCEPT !.pc = "done",
                          !.accumulatedText = ProcessChunk(@, <<>>, provider)]

NextBytes ==
    \/ NetworkRead /\ UNCHANGED <<engineVars, configVars, retrieveVars, historyVars, rt, tr, app>>
    \/ NetworkDone /\ UNCHANGED <<engineVars, configVars, retrieveVars, historyVars, rt, tr, app>>

SpecBytes == InitBytes /\ [][NextBytes]_vars

\* the text accumulated when the whole body arrives in one read
TextOfOneRead(frames) == ProcessChunk(<<>>, Serialise(frames), provider)

\* C37: the text accumulated at the end of the stream depends only on the frames the
\* backend sent, not on how the bytes were divided into reads: it is the text
\* accumulated when the whole body arrives in one read.
C37_TextIndependentOfChunking ==
    (svc.op = "stream" /\ svc.pc = "done") => svc.accumulatedText = TextOfOneRead(svc.frames)

\* the same for the streams whose reads all ended at the end of a line
C37_TextWhenReadsEndAtLineEnds ==
    (svc.op = "stream" /\ svc.pc = "done" /\ ~svc.cutInLine) =>
        svc.accumulatedText = TextOfOneRead(svc.frames)

-----------------------------------------------------------------------------
(* The lists a send hands to its sink *)

\* the history argument of the sendMessage call that made generation record gr, read
\* from the lane's list before the call
BaseSnapshot(gr) ==
    IF gr.origin = "regenerate" THEN RegenerateBase(messages[gr.lane]) ELSE messages[gr.lane]

\* list differs from the first list of generation record gr in nothing but the text,
\* the metadata and the error flag of the placeholder
SameButPlaceholder(list, gr) ==
    LET n == Len(gr.messagesWithBot)
    IN  /\ Len(list) = n
        /\ \A i \in 1..(n - 1) : list[i] = gr.messagesWithBot[i]
        /\ list[n].id = gr.botMsgId
        /\ list[n] = [gr.messagesWithBot[n] EXCEPT
                          !.content = list[n].content,
                          !.groundingMetadata = list[n].groundingMetadata,
                          !.isError = list[n].isError]

\* C38: every list a send hands to the sink is the base history snapshot, the new user
\* message and the placeholder, in that order: the first list of a send is its base
\* followed by a user message and an empty model message, and every later list of the
\* send differs from the first in nothing but the placeholder's text, metadata and
\* error flag.
C38_SinkListsKeepSnapshot ==
    [][\A g \in DOMAIN gens' :
           /\ g \notin DOMAIN gens =>
                  LET list == gens'[g].lastSink
                      base == BaseSnapshot(gens'[g])
                  IN  /\ list = gens'[g].messagesWithBot
                      /\ Len(list) = Len(base) + 2
                      /\ SubSeq(list, 1, Len(base)) = base
                      /\ list[Len(base) + 1].role = "user"
                      /\ list[Len(base) + 2].role = "model"
                      /\ list[Len(base) + 2].content = <<>>
           /\ SameButPlaceholder(gens'[g].lastSink, gens'[g])
           /\ g \in DOMAIN gens => gens'[g].messagesWithBot = gens[g].messagesWithBot]_vars

\* a send on a conversation with earlier turns handed its first list, an increment and
\* the error list to the sink
C38_Witness ==
    \E g \in Gens :
        /\ Len(gens[g].messagesWithBot) >= 4
        /\ gens[g].incs >= 1
        /\ gens[g].rethrown
        /\ gens[g].sinks >= 3
        /\ gens[g].lastSink # gens[g].messagesWithBot

====
